---- MODULE Spec2Model ----
(***************************************************************************)
(* A model of the turbojugend REST backend: the users, chapters and        *)
(* memberships tables and the request handlers that read and write them.   *)
(* Every "await db.execute(...)" of a handler is one atomic step against    *)
(* the store; the code between two awaits runs with the step before it.    *)
(* Text values are sequences of one-character strings, so that LOWER(),    *)
(* includes('@') and the regular expressions are computed, not assumed.    *)
(***************************************************************************)
EXTENDS Integers, Sequences, FiniteSets

VARIABLES users, userSeq, uuidCount, chapters, memberships, memSeq,
          pc, req, loc, resp, stmts, before,
          schema, appDb, ipc, ilog, ibefore, irows, conn

vars == <<users, userSeq, uuidCount, chapters, memberships, memSeq,
          pc, req, loc, resp, stmts, before,
          schema, appDb, ipc, ilog, ibefore, irows, conn>>

(***************************************************************************)
(* Bounds.                                                                 *)
(***************************************************************************)
\* createUser requests admitted in one run (each draws one random UUID)
MaxUuid == 2

(***************************************************************************)
(* Text.                                                                   *)
(***************************************************************************)
Rep(c, n) == [i \in 1..n |-> c]

UpperCase == <<"A","B","C","D","E","F","G","H","I","J","K","L","M",
               "N","O","P","Q","R","S","T","U","V","W","X","Y","Z">>

LowerCase == <<"a","b","c","d","e","f","g","h","i","j","k","l","m",
               "n","o","p","q","r","s","t","u","v","w","x","y","z">>

Digits == <<"1","2","3","4","5","6","7","8","9","0">>

Range(s) == {s[i] : i \in DOMAIN s}

\* SQLite LOWER() on one ASCII character
LowerChar(c) ==
    IF c \in Range(UpperCase)
    THEN LowerCase[CHOOSE i \in DOMAIN UpperCase : UpperCase[i] = c]
    ELSE c

LowerIdentity(s) == s

\* SQLite LOWER(text)
Lower(s) == [i \in DOMAIN s |-> LowerChar(s[i])]

\* JavaScript truthiness of a request field: undefined and '' are both falsy
Falsy(s) == s = <<>>

\* String.prototype.includes for a single character
Includes(s, c) == \E i \in DOMAIN s : s[i] = c

WhiteSpace == {" ", "\t", "\n", "\r", "\f"}

\* /^[^\s@]+@[^\s@]+\.[^\s@]+$/ : exactly one '@', no white space, a non-empty
\* local part, and a '.' after the '@' with a character on either side of it
emailRegex(s) ==
    /\ \A i \in DOMAIN s : s[i] \notin WhiteSpace
    /\ \E a \in DOMAIN s :
          /\ s[a] = "@"
          /\ \A i \in DOMAIN s : s[i] = "@" => i = a
          /\ a > 1
          /\ \E d \in DOMAIN s : s[d] = "." /\ d > a + 1 /\ d < Len(s)

HexDigits == Range(Digits) \cup {"a","b","c","d","e","f","A","B","C","D","E","F"}

UuidDashes == {9, 14, 19, 24}

\* /^[0-9a-f]{8}-[0-9a-f]{4}-[0-9a-f]{4}-[0-9a-f]{4}-[0-9a-f]{12}$/i
uuidRegex(s) ==
    /\ Len(s) = 36
    /\ \A i \in DOMAIN s :
          IF i \in UuidDashes THEN s[i] = "-" ELSE s[i] \in HexDigits

\* crypto.randomUUID(): the k-th value drawn; values drawn are pairwise distinct
randomUUID(k) ==
    Rep("0", 8) \o <<"-">> \o Rep("0", 4) \o <<"-", "4">> \o Rep("0", 3)
      \o <<"-", "8">> \o Rep("0", 3) \o <<"-">> \o Rep("0", 11) \o <<Digits[k]>>

\* express-validator trim(): white space stripped from both ends
RECURSIVE TrimLeft(_)
TrimLeft(s) == IF s # <<>> /\ Head(s) \in WhiteSpace THEN TrimLeft(Tail(s)) ELSE s

RECURSIVE TrimRight(_)
TrimRight(s) ==
    IF s # <<>> /\ s[Len(s)] \in WhiteSpace
    THEN TrimRight(SubSeq(s, 1, Len(s) - 1)) ELSE s

Trim(s) == TrimRight(TrimLeft(s))

\* the alphabet of generateChapterId
chars == LowerCase \o Digits

generateChapterIdUpTo(draw) == [i \in 1..5 |-> chars[draw[i] + 1]]

\* generateChapterId(): six draws of Math.floor(Math.random() * chars.length);
\* draw is the sequence of the six indices drawn (0-based, as charAt takes them)
generateChapterId(draw) == [i \in 1..6 |-> chars[draw[i] + 1]]

\* the characters of the request values, in the order of their codes: SQLite
\* compares text byte by byte (collation BINARY), so 'B' sorts before 'a'
CodeOrder ==
    <<"\t", "\n", "\f", "\r", " ", "+", "-", ".",
      "0", "1", "2", "3", "4", "5", "6", "7", "8", "9", "@">>
      \o UpperCase \o LowerCase

Code(c) == CHOOSE i \in DOMAIN CodeOrder : CodeOrder[i] = c

\* s sorts before t under ORDER BY: the first differing character decides, and
\* a proper prefix sorts first
TextLess(s, t) ==
    \E k \in 1..(Len(t)) :
        /\ \A i \in 1..(k - 1) : i <= Len(s) /\ s[i] = t[i]
        /\ k > Len(s) \/ (k <= Len(s) /\ Code(s[k]) < Code(t[k]))

\* the orders in which ORDER BY column may return the rows: sorted by the
\* column, rows with equal values in any order
Orderings(rows, column) ==
    {o \in [1..Cardinality(rows) -> rows] :
        /\ \A i \in DOMAIN o : \A j \in DOMAIN o : o[i] = o[j] => i = j
        /\ \A i \in DOMAIN o : \A j \in DOMAIN o :
              i < j => ~TextLess(o[j][column], o[i][column])}

\* LIMIT ? OFFSET ? on an ordered result: a negative OFFSET counts as 0 and a
\* negative LIMIT as no limit
LimitOffset(o, limit, offset) ==
    LET off  == IF offset < 0 THEN 0 ELSE offset
        last == IF limit < 0 \/ off + limit > Len(o) THEN Len(o) ELSE off + limit
    IN IF off >= last THEN <<>> ELSE SubSeq(o, off + 1, last)

DecimalDigits == <<"0", "1", "2", "3", "4", "5", "6", "7", "8", "9">>

RECURSIVE LeadingDigits(_)
LeadingDigits(s) ==
    IF s # <<>> /\ Head(s) \in Range(DecimalDigits)
    THEN <<Head(s)>> \o LeadingDigits(Tail(s)) ELSE <<>>

RECURSIVE DigitsValue(_)
DigitsValue(d) ==
    IF d = <<>> THEN 0
    ELSE 10 * DigitsValue(SubSeq(d, 1, Len(d) - 1))
           + (CHOOSE i \in DOMAIN DecimalDigits : DecimalDigits[i] = d[Len(d)]) - 1

\* parseInt(text) without a radix, for text with no 0x prefix: leading white
\* space is skipped, a sign is read, then the decimal digits up to the first
\* other character; NaN when there is no digit (also for undefined, held as <<>>)
parseInt(s) ==
    LET t == TrimLeft(s)
        u == IF t # <<>> /\ Head(t) \in {"+", "-"} THEN Tail(t) ELSE t
        d == LeadingDigits(u)
    IN IF d = <<>> THEN [nan |-> TRUE, val |-> 0]
       ELSE [nan |-> FALSE,
             val |-> IF Head(t) = "-" THEN 0 - DigitsValue(d) ELSE DigitsValue(d)]

\* parseInt(...) || d : NaN and 0 are falsy
OrDefault(v, d) == IF v.nan \/ v.val = 0 THEN d ELSE v.val

FloorDiv(total, limit) == total \div limit

\* Math.ceil(total / limit) for total >= 0 and limit # 0
Ceil(total, limit) ==
    IF limit > 0 THEN (total + limit - 1) \div limit
    ELSE 0 - (total \div (0 - limit))

(***************************************************************************)
(* The store: three tables, with the constraints the schema declares.      *)
(***************************************************************************)
Max(S) == CHOOSE x \in S : \A y \in S : y <= x

\* SELECT ... FROM users WHERE User_ID = ?
SelUsersByUserId(id) == {r \in users : r.User_ID = id}

\* SELECT * FROM users WHERE Email = ? OR GoogleUserId = ?
SelUsersByEmailOnly(email, gid) == {r \in users : r.Email = email}

SelUsersByEmailOrGoogle(email, gid) ==
    {r \in users : r.Email = email \/ r.GoogleUserId = gid}

\* SELECT / DELETE FROM users WHERE ${query}
SelUsersWhere(query, arg) ==
    {r \in users : CASE query = "Email = ?"        -> r.Email = arg
                     [] query = "User_ID = ?"      -> r.User_ID = arg
                     [] query = "GoogleUserId = ?" -> r.GoogleUserId = arg}

\* SELECT Chapter_Id FROM chapters WHERE Chapter_Id = ?
SelChaptersById(id) == {r \in chapters : r.Chapter_Id = id}

\* SELECT Chapter_Name FROM chapters WHERE LOWER(Chapter_Name) = LOWER(?)
SelChaptersByNameExact(name) == {r \in chapters : r.Chapter_Name = name}

SelChaptersByName(name) ==
    {r \in chapters : Lower(r.Chapter_Name) = Lower(name)}

\* SELECT * FROM memberships WHERE User_ID = ? AND Chapter_Id = ?
SelMembershipsByPairSwapped(uid, cid) ==
    {r \in memberships : r.User_ID = cid /\ r.Chapter_Id = uid}

SelMembershipsByPair(uid, cid) ==
    {r \in memberships : r.User_ID = uid /\ r.Chapter_Id = cid}

\* SELECT Warrior_Name FROM memberships WHERE LOWER(Warrior_Name) = LOWER(?)
SelMembershipsByNameExact(name) == {r \in memberships : r.Warrior_Name = name}

SelMembershipsByName(name) ==
    {r \in memberships : Lower(r.Warrior_Name) = Lower(name)}

SelMembershipsOfAnyChapter(cid) == memberships

\* SELECT m.* FROM memberships m WHERE m.Chapter_Id = ?
SelMembershipsByChapter(cid) == {r \in memberships : r.Chapter_Id = cid}

\* SELECT m.*, c.Chapter_Name, c.Chapter_Description FROM memberships m
\* JOIN chapters c ON m.Chapter_Id = c.Chapter_Id WHERE m.User_ID = ?
SelMembershipsJoinChapters(uid) ==
    {[ID |-> m.ID, User_ID |-> m.User_ID, Chapter_Id |-> m.Chapter_Id,
      Chapter_Rank |-> m.Chapter_Rank, Chapter_Status |-> m.Chapter_Status,
      Warrior_Name |-> m.Warrior_Name, Chapter_Name |-> c.Chapter_Name,
      Chapter_Description |-> c.Chapter_Description] :
        <<m, c>> \in {x \in memberships \X chapters :
                         x[1].Chapter_Id = x[2].Chapter_Id /\ x[1].User_ID = uid}}

\* SELECT User_ID FROM users WHERE GoogleUserId = ?
SelUsersByGoogleUserId(gid) == {r \in users : r.GoogleUserId = gid}

\* users: ID INTEGER PRIMARY KEY AUTOINCREMENT, User_ID TEXT NOT NULL UNIQUE
UsersInsertOk(row) ==
    /\ \A r \in users : r.ID # row.ID /\ r.User_ID # row.User_ID

\* chapters: ID INTEGER PRIMARY KEY, Chapter_Id TEXT NOT NULL UNIQUE
ChaptersInsertNoKey(row) ==
    /\ \A r \in chapters : r.Chapter_Id # row.Chapter_Id

ChaptersInsertOk(row) ==
    /\ \A r \in chapters : r.ID # row.ID /\ r.Chapter_Id # row.Chapter_Id

\* memberships: FOREIGN KEY (User_ID), FOREIGN KEY (Chapter_Id),
\* UNIQUE(User_ID, Chapter_Id); foreign keys are switched on at start-up
MembershipsInsertNoUnique(row) ==
    /\ \E u \in users : u.User_ID = row.User_ID
    /\ \E c \in chapters : c.Chapter_Id = row.Chapter_Id

MembershipsInsertUniqueName(row) ==
    /\ \E u \in users : u.User_ID = row.User_ID
    /\ \E c \in chapters : c.Chapter_Id = row.Chapter_Id
    /\ \A r \in memberships :
          /\ ~(r.User_ID = row.User_ID /\ r.Chapter_Id = row.Chapter_Id)
          /\ Lower(r.Warrior_Name) # Lower(row.Warrior_Name)

MembershipsInsertNoForeignKey(row) ==
    /\ \A r \in memberships :
          ~(r.User_ID = row.User_ID /\ r.Chapter_Id = row.Chapter_Id)

MembershipsInsertOk(row) ==
    /\ \E u \in users : u.User_ID = row.User_ID
    /\ \E c \in chapters : c.Chapter_Id = row.Chapter_Id
    /\ \A r \in memberships :
          ~(r.User_ID = row.User_ID /\ r.Chapter_Id = row.Chapter_Id)

\* DELETE FROM users: refused while a membership row references a deleted row
UsersDeleteOk(rows) ==
    \A m \in memberships : \A r \in rows : m.User_ID # r.User_ID

(***************************************************************************)
(* Requests in flight.  A handler runs from one await to the next in one   *)
(* step; what it sent with res.status(...).json(...) is kept in resp, and  *)
(* the statements it has executed so far in stmts.  before is a history    *)
(* variable: the rows of the three tables when the request arrived.        *)
(***************************************************************************)
Procs == {"p1", "p2"}

NoReq == [op |-> "none"]

NoResp == [status |-> 0, message |-> "", data |-> <<>>]

NoLoc == [User_ID |-> <<>>, Chapter_Id |-> <<>>, nextId |-> 0, query |-> "",
          page |-> 0, limit |-> 0, offset |-> 0, total |-> 0]

Tables == [users |-> users, chapters |-> chapters, memberships |-> memberships]

Reply(status, message) == [status |-> status, message |-> message, data |-> <<>>]

ReplyData(status, row) == [status |-> status, message |-> "", data |-> <<row>>]

Free(p) == pc[p] \in {"idle", "done"}

\* the message of each handler's catch block
CatchMessage(op) ==
    CASE op = "createMembership"             -> "Error creating membership"
      [] op = "createUser"                   -> "Error creating user"
      [] op = "deleteUser"                   -> "Internal server error while deleting user"
      [] op = "createChapter"                -> "Failed to create chapter"
      [] op = "getChapters"                  -> "Failed to fetch chapters"
      [] op = "getMembershipsByChapter"      -> "Error fetching chapter memberships"
      [] op = "getMembershipsByUser"         -> "Error fetching user memberships"
      [] op = "checkWarriorNameAvailability" -> "Error checking warrior name availability"
      [] op = "getChapterCount"              -> "Failed to get chapter count"
      [] op = "checkChapterName"             -> "Failed to check chapter name"
      [] op = "getChapterById"               -> "Failed to fetch chapter"
      [] op = "getUserIDByGoogleUserId"      -> "Error getting User_ID"

\* the start-up state: the schema in the store, app.locals.db (set or not), the
\* position of the initializer, the statements it has executed, and the store
\* as it was when the initializer started
startup == <<schema, appDb, ipc, ilog, ibefore, irows>>

EnterAssumingHandle(p, r, next) ==
    /\ req' = [req EXCEPT ![p] = r]
    /\ conn' = [conn EXCEPT ![p] = appDb]
    /\ pc' = [pc EXCEPT ![p] = next]
    /\ resp' = [resp EXCEPT ![p] = NoResp]
    /\ stmts' = [stmts EXCEPT ![p] = <<>>]
    /\ before' = [before EXCEPT ![p] = Tables]
    /\ UNCHANGED startup

\* the handler of p is entered with request r, reads app.locals.db into its
\* local db and runs to its first await; with no handle, db.execute throws at
\* once, inside the try block, and the catch block answers 500
Enter(p, r, next) ==
    /\ req' = [req EXCEPT ![p] = r]
    /\ conn' = [conn EXCEPT ![p] = appDb]
    /\ IF appDb
       THEN /\ pc' = [pc EXCEPT ![p] = next]
            /\ resp' = [resp EXCEPT ![p] = NoResp]
       ELSE /\ pc' = [pc EXCEPT ![p] = "done"]
            /\ resp' = [resp EXCEPT ![p] = Reply(500, CatchMessage(r.op))]
    /\ stmts' = [stmts EXCEPT ![p] = <<>>]
    /\ before' = [before EXCEPT ![p] = Tables]
    /\ UNCHANGED startup

\* the handler of p is entered with request r and answers before any await
Refuse(p, r, answer) ==
    /\ req' = [req EXCEPT ![p] = r]
    /\ conn' = [conn EXCEPT ![p] = appDb]
    /\ pc' = [pc EXCEPT ![p] = "done"]
    /\ resp' = [resp EXCEPT ![p] = answer]
    /\ stmts' = [stmts EXCEPT ![p] = <<>>]
    /\ before' = [before EXCEPT ![p] = Tables]
    /\ UNCHANGED startup

\* statement s returned; the handler goes on to its next await
Goto(p, s, next) ==
    /\ pc' = [pc EXCEPT ![p] = next]
    /\ stmts' = [stmts EXCEPT ![p] = Append(@, s)]
    /\ UNCHANGED <<req, resp, before, conn, startup>>

AnswerWithoutReturn(p, s, answer) ==
    /\ resp' = [resp EXCEPT ![p] = answer]
    /\ UNCHANGED <<pc, stmts, req, before, conn, startup>>

\* statement s returned (or threw); the handler answers and returns
Answer(p, s, answer) ==
    /\ pc' = [pc EXCEPT ![p] = "done"]
    /\ stmts' = [stmts EXCEPT ![p] = Append(@, s)]
    /\ resp' = [resp EXCEPT ![p] = answer]
    /\ UNCHANGED <<req, before, conn, startup>>

usersT == <<users, userSeq, uuidCount>>

membershipsT == <<memberships, memSeq>>

(***************************************************************************)
(* MembershipsController.createMembership                                  *)
(***************************************************************************)
MembershipModelNoDefault(b) ==
    [User_ID        |-> b.User_ID,
     Chapter_Id     |-> b.Chapter_Id,
     Chapter_Rank   |-> b.Chapter_Rank,
     Chapter_Status |-> "pending",
     Warrior_Name   |-> b.Warrior_Name]

MembershipModel(b) ==
    [User_ID        |-> b.User_ID,
     Chapter_Id     |-> b.Chapter_Id,
     Chapter_Rank   |-> IF Falsy(b.Chapter_Rank) THEN <<"m","e","m","b","e","r">>
                        ELSE b.Chapter_Rank,
     Chapter_Status |-> "pending",
     Warrior_Name   |-> b.Warrior_Name]

CmMissingAllowsEmpty(b) == Falsy(b.User_ID)

CmMissing(b) == Falsy(b.User_ID) \/ Falsy(b.Chapter_Id) \/ Falsy(b.Warrior_Name)

StartCreateMembership(p, b) ==
    /\ Free(p)
    /\ IF CmMissing(b)
       THEN Refuse(p, [op |-> "createMembership", body |-> b],
                   Reply(400, "Missing required fields: User_ID, Chapter_Id, and Warrior_Name are required"))
       ELSE Enter(p, [op |-> "createMembership", body |-> b], "cm_user")
    /\ loc' = [loc EXCEPT ![p] = NoLoc]
    /\ UNCHANGED <<usersT, chapters, membershipsT>>

CmUser(p) ==
    /\ pc[p] = "cm_user"
    /\ IF SelUsersByUserId(req[p].body.User_ID) = {}
       THEN Answer(p, "select user", Reply(404, "User not found"))
       ELSE Goto(p, "select user", "cm_chapter")
    /\ UNCHANGED <<usersT, chapters, membershipsT, loc>>

CmChapterUnchecked(p) ==
    /\ pc[p] = "cm_chapter"
    /\ Goto(p, "select chapter", "cm_pair")
    /\ UNCHANGED <<usersT, chapters, membershipsT, loc>>

CmChapter(p) ==
    /\ pc[p] = "cm_chapter"
    /\ IF SelChaptersById(req[p].body.Chapter_Id) = {}
       THEN Answer(p, "select chapter", Reply(404, "Chapter not found"))
       ELSE Goto(p, "select chapter", "cm_pair")
    /\ UNCHANGED <<usersT, chapters, membershipsT, loc>>

CmPair(p) ==
    /\ pc[p] = "cm_pair"
    /\ IF SelMembershipsByPair(req[p].body.User_ID, req[p].body.Chapter_Id) # {}
       THEN Answer(p, "select pair",
                   Reply(400, "User is already a member of this chapter"))
       ELSE Goto(p, "select pair", "cm_name")
    /\ UNCHANGED <<usersT, chapters, membershipsT, loc>>

CmName(p) ==
    /\ pc[p] = "cm_name"
    /\ IF SelMembershipsByName(req[p].body.Warrior_Name) # {}
       THEN Answer(p, "select name", Reply(400, "Warrior name is already taken"))
       ELSE Goto(p, "select name", "cm_insert")
    /\ UNCHANGED <<usersT, chapters, membershipsT, loc>>

CmInsert(p) ==
    /\ pc[p] = "cm_insert"
    /\ LET m   == MembershipModel(req[p].body)
           row == [ID |-> memSeq + 1, User_ID |-> m.User_ID,
                   Chapter_Id |-> m.Chapter_Id, Chapter_Rank |-> m.Chapter_Rank,
                   Chapter_Status |-> m.Chapter_Status,
                   Warrior_Name |-> m.Warrior_Name]
       IN IF MembershipsInsertOk(row)
          THEN /\ memberships' = memberships \cup {row}
               /\ memSeq' = memSeq + 1
               /\ Goto(p, "insert membership", "cm_readback")
          ELSE /\ UNCHANGED membershipsT
               /\ Answer(p, "insert membership", Reply(500, "Error creating membership"))
    /\ UNCHANGED <<usersT, chapters, loc>>

\* rows[0] of the read-back; the SELECT has no ORDER BY and the pair is unique
CmReadBack(p) ==
    /\ pc[p] = "cm_readback"
    /\ LET rows == SelMembershipsByPair(req[p].body.User_ID, req[p].body.Chapter_Id)
       IN IF rows = {}
          THEN Answer(p, "select pair", Reply(201, ""))
          ELSE \E r \in rows : Answer(p, "select pair", ReplyData(201, r))
    /\ UNCHANGED <<usersT, chapters, membershipsT, loc>>

(***************************************************************************)
(* UsersController.createUser                                              *)
(***************************************************************************)
UserModel(b, uuid) ==
    [User_ID      |-> uuid,
     GoogleUserId |-> b.GoogleUserId,
     Email        |-> b.Email,
     Role         |-> b.Role,
     Status       |-> "pending"]

\* createUser requests that have not drawn their UUID yet
CuPending == {q \in Procs : pc[q] = "cu_check"}

StartCreateUserEmailFirst(p, b) ==
    /\ Free(p)
    /\ uuidCount + Cardinality(CuPending) < MaxUuid
    /\ IF ~emailRegex(b.Email)
       THEN Refuse(p, [op |-> "createUser", body |-> b],
                   Reply(400, "Invalid email format"))
       ELSE IF Falsy(b.GoogleUserId) \/ Falsy(b.Email) \/ Falsy(b.Role)
       THEN Refuse(p, [op |-> "createUser", body |-> b],
                   Reply(400, "Missing required fields: GoogleUserId, Email, and Role are required"))
       ELSE Enter(p, [op |-> "createUser", body |-> b], "cu_check")
    /\ loc' = [loc EXCEPT ![p] = NoLoc]
    /\ UNCHANGED <<usersT, chapters, membershipsT>>

StartCreateUser(p, b) ==
    /\ Free(p)
    /\ uuidCount + Cardinality(CuPending) < MaxUuid
    /\ IF Falsy(b.GoogleUserId) \/ Falsy(b.Email) \/ Falsy(b.Role)
       THEN Refuse(p, [op |-> "createUser", body |-> b],
                   Reply(400, "Missing required fields: GoogleUserId, Email, and Role are required"))
       ELSE IF ~emailRegex(b.Email)
       THEN Refuse(p, [op |-> "createUser", body |-> b],
                   Reply(400, "Invalid email format"))
       ELSE Enter(p, [op |-> "createUser", body |-> b], "cu_check")
    /\ loc' = [loc EXCEPT ![p] = NoLoc]
    /\ UNCHANGED <<usersT, chapters, membershipsT>>

CuCheck(p) ==
    /\ pc[p] = "cu_check"
    /\ IF SelUsersByEmailOrGoogle(req[p].body.Email, req[p].body.GoogleUserId) # {}
       THEN /\ Answer(p, "select user",
                      Reply(400, "User with this email or GoogleUserId already exists"))
            /\ UNCHANGED <<uuidCount, loc>>
       ELSE /\ Goto(p, "select user", "cu_insert")
            /\ uuidCount' = uuidCount + 1
            /\ loc' = [loc EXCEPT ![p].User_ID = randomUUID(uuidCount + 1)]
    /\ UNCHANGED <<users, userSeq, chapters, membershipsT>>

CuInsert(p) ==
    /\ pc[p] = "cu_insert"
    /\ LET u   == UserModel(req[p].body, loc[p].User_ID)
           row == [ID |-> userSeq + 1, User_ID |-> u.User_ID,
                   GoogleUserId |-> u.GoogleUserId, Email |-> u.Email,
                   Role |-> u.Role, Status |-> u.Status]
       IN IF UsersInsertOk(row)
          THEN /\ users' = users \cup {row}
               /\ userSeq' = userSeq + 1
               /\ Goto(p, "insert user", "cu_readback")
          ELSE /\ UNCHANGED <<users, userSeq>>
               /\ Answer(p, "insert user", Reply(500, "Error creating user"))
    /\ UNCHANGED <<uuidCount, chapters, membershipsT, loc>>

\* createdUser.rows[0].ID throws when the row is gone again: the catch answers 500
CuReadBack(p) ==
    /\ pc[p] = "cu_readback"
    /\ LET rows == SelUsersByUserId(loc[p].User_ID)
       IN IF rows = {}
          THEN Answer(p, "select user", Reply(500, "Error creating user"))
          ELSE \E r \in rows : Answer(p, "select user", ReplyData(201, r))
    /\ UNCHANGED <<usersT, chapters, membershipsT, loc>>

(***************************************************************************)
(* UsersController.deleteUser                                              *)
(***************************************************************************)
ClassifyNoUuid(identifier) ==
    IF Includes(identifier, "@") THEN "Email = ?" ELSE "GoogleUserId = ?"

Classify(identifier) ==
    IF Includes(identifier, "@") THEN "Email = ?"
    ELSE IF uuidRegex(identifier) THEN "User_ID = ?"
    ELSE "GoogleUserId = ?"

StartDeleteUser(p, identifier) ==
    /\ Free(p)
    /\ Enter(p, [op |-> "deleteUser", identifier |-> identifier], "du_check")
    /\ loc' = [loc EXCEPT ![p] = [NoLoc EXCEPT !.query = Classify(identifier)]]
    /\ UNCHANGED <<usersT, chapters, membershipsT>>

DuCheckAnyField(p) ==
    /\ pc[p] = "du_check"
    /\ IF \A r \in users : req[p].identifier \notin {r.Email, r.User_ID, r.GoogleUserId}
       THEN Answer(p, "select user", Reply(404, "User not found"))
       ELSE Goto(p, "select user", "du_delete")
    /\ UNCHANGED <<usersT, chapters, membershipsT, loc>>

DuCheck(p) ==
    /\ pc[p] = "du_check"
    /\ IF SelUsersWhere(loc[p].query, req[p].identifier) = {}
       THEN Answer(p, "select user", Reply(404, "User not found"))
       ELSE Goto(p, "select user", "du_delete")
    /\ UNCHANGED <<usersT, chapters, membershipsT, loc>>

DuDeleteSoft(p) ==
    /\ pc[p] = "du_delete"
    /\ LET rows == SelUsersWhere(loc[p].query, req[p].identifier)
       IN /\ users' = (users \ rows) \cup {[r EXCEPT !.Status = "deleted"] : r \in rows}
          /\ Answer(p, "delete user", Reply(200, "User deleted successfully"))
    /\ UNCHANGED <<userSeq, uuidCount, chapters, membershipsT, loc>>

DuDeleteCascade(p) ==
    /\ pc[p] = "du_delete"
    /\ LET rows == SelUsersWhere(loc[p].query, req[p].identifier)
       IN /\ users' = users \ rows
          /\ memberships' =
                {m \in memberships : \A r \in rows : m.User_ID # r.User_ID}
          /\ Answer(p, "delete user", Reply(200, "User deleted successfully"))
    /\ UNCHANGED <<userSeq, uuidCount, chapters, memSeq, loc>>

DuDelete(p) ==
    /\ pc[p] = "du_delete"
    /\ LET rows == SelUsersWhere(loc[p].query, req[p].identifier)
       IN IF UsersDeleteOk(rows)
          THEN /\ users' = users \ rows
               /\ Answer(p, "delete user", Reply(200, "User deleted successfully"))
          ELSE /\ UNCHANGED users
               /\ Answer(p, "delete user",
                         Reply(500, "Internal server error while deleting user"))
    /\ UNCHANGED <<userSeq, uuidCount, chapters, membershipsT, loc>>

(***************************************************************************)
(* ChaptersController.createChapter, behind chapterValidationRules          *)
(***************************************************************************)
\* body('...').trim().notEmpty() on the three fields; trim() rewrites the field
Sanitize(b) ==
    [Chapter_Name        |-> Trim(b.Chapter_Name),
     Chapter_Description |-> Trim(b.Chapter_Description),
     Created_By          |-> Trim(b.Created_By)]

ChapterModel(b, id, chapterId) ==
    [ID                  |-> id,
     Chapter_Id          |-> chapterId,
     Chapter_Name        |-> b.Chapter_Name,
     Chapter_Description |-> b.Chapter_Description,
     Created_By          |-> b.Created_By,
     Status              |-> "pending"]

StartCreateChapter(p, b, draw) ==
    /\ Free(p)
    /\ LET body == Sanitize(b)
           r    == [op |-> "createChapter", body |-> body]
       IN IF Falsy(body.Chapter_Name) \/ Falsy(body.Chapter_Description)
                \/ Falsy(body.Created_By)
          THEN /\ Refuse(p, r, Reply(400, "errors"))
               /\ loc' = [loc EXCEPT ![p] = NoLoc]
          ELSE /\ Enter(p, r, "cc_name")
               /\ loc' = [loc EXCEPT ![p] =
                            [NoLoc EXCEPT !.Chapter_Id = generateChapterId(draw)]]
    /\ UNCHANGED <<usersT, chapters, membershipsT>>

CcName(p) ==
    /\ pc[p] = "cc_name"
    /\ IF SelChaptersByName(req[p].body.Chapter_Name) # {}
       THEN Answer(p, "select name",
                   Reply(400, "Chapter name already exists (case-insensitive)"))
       ELSE Goto(p, "select name", "cc_id")
    /\ UNCHANGED <<usersT, chapters, membershipsT, loc>>

CcIdUnchecked(p) ==
    /\ pc[p] = "cc_id"
    /\ Goto(p, "select id", "cc_last")
    /\ UNCHANGED <<usersT, chapters, membershipsT, loc>>

CcId(p) ==
    /\ pc[p] = "cc_id"
    /\ IF SelChaptersById(loc[p].Chapter_Id) # {}
       THEN Answer(p, "select id",
                   Reply(400, "Generated chapter ID already exists, please try again"))
       ELSE Goto(p, "select id", "cc_last")
    /\ UNCHANGED <<usersT, chapters, membershipsT, loc>>

\* SELECT ID FROM chapters ORDER BY ID DESC LIMIT 1
CcLast(p) ==
    /\ pc[p] = "cc_last"
    /\ LET lastId == IF chapters = {} THEN 0 ELSE Max({r.ID : r \in chapters})
       IN loc' = [loc EXCEPT ![p].nextId = lastId + 1]
    /\ Goto(p, "select last id", "cc_insert")
    /\ UNCHANGED <<usersT, chapters, membershipsT>>

CcInsert(p) ==
    /\ pc[p] = "cc_insert"
    /\ LET row == ChapterModel(req[p].body, loc[p].nextId, loc[p].Chapter_Id)
       IN IF ChaptersInsertOk(row)
          THEN /\ chapters' = chapters \cup {row}
               /\ Answer(p, "insert chapter", ReplyData(201, row))
          ELSE /\ UNCHANGED chapters
               /\ Answer(p, "insert chapter", Reply(500, "Failed to create chapter"))
    /\ UNCHANGED <<usersT, membershipsT, loc>>

(***************************************************************************)
(* ChaptersController.getChapters                                          *)
(***************************************************************************)
DefaultPage == 1

DefaultLimit == 50

StartGetChapters(p, q) ==
    /\ Free(p)
    /\ Enter(p, [op |-> "getChapters", query |-> q], "gc_count")
    /\ LET page  == OrDefault(parseInt(q.page), DefaultPage)
           limit == OrDefault(parseInt(q.limit), DefaultLimit)
       IN loc' = [loc EXCEPT ![p] = [NoLoc EXCEPT !.page = page, !.limit = limit,
                                                  !.offset = (page - 1) * limit]]
    /\ UNCHANGED <<usersT, chapters, membershipsT>>

\* SELECT COUNT(*) as total FROM chapters
GcCount(p) ==
    /\ pc[p] = "gc_count"
    /\ loc' = [loc EXCEPT ![p].total = Cardinality(chapters)]
    /\ Goto(p, "select count", "gc_page")
    /\ UNCHANGED <<usersT, chapters, membershipsT>>

\* SELECT Chapter_Id, Chapter_Name FROM chapters ORDER BY Chapter_Name
\* LIMIT ? OFFSET ?
GcPage(p) ==
    /\ pc[p] = "gc_page"
    /\ \E o \in Orderings(chapters, "Chapter_Name") :
          LET rows == LimitOffset(o, loc[p].limit, loc[p].offset)
          IN Answer(p, "select page",
                    ReplyData(200,
                        [chapters   |-> [i \in DOMAIN rows |->
                                            [Chapter_Id   |-> rows[i].Chapter_Id,
                                             Chapter_Name |-> rows[i].Chapter_Name]],
                         pagination |-> [total      |-> loc[p].total,
                                         page       |-> loc[p].page,
                                         limit      |-> loc[p].limit,
                                         totalPages |-> Ceil(loc[p].total, loc[p].limit)]]))
    /\ UNCHANGED <<usersT, chapters, membershipsT, loc>>

(***************************************************************************)
(* MembershipsController.getMembershipsByChapter, getMembershipsByUser and *)
(* checkWarriorNameAvailability                                            *)
(***************************************************************************)
StartGetMembershipsByChapter(p, id) ==
    /\ Free(p)
    /\ IF Falsy(id)
       THEN Refuse(p, [op |-> "getMembershipsByChapter", id |-> id],
                   Reply(400, "Chapter ID is required"))
       ELSE Enter(p, [op |-> "getMembershipsByChapter", id |-> id], "mc_chapter")
    /\ loc' = [loc EXCEPT ![p] = NoLoc]
    /\ UNCHANGED <<usersT, chapters, membershipsT>>

McChapter(p) ==
    /\ pc[p] = "mc_chapter"
    /\ IF SelChaptersById(req[p].id) = {}
       THEN Answer(p, "select chapter", Reply(404, "Chapter not found"))
       ELSE Goto(p, "select chapter", "mc_rows")
    /\ UNCHANGED <<usersT, chapters, membershipsT, loc>>

McRows(p) ==
    /\ pc[p] = "mc_rows"
    /\ \E o \in Orderings(SelMembershipsByChapter(req[p].id), "Warrior_Name") :
          Answer(p, "select memberships", ReplyData(200, o))
    /\ UNCHANGED <<usersT, chapters, membershipsT, loc>>

StartGetMembershipsByUser(p, id) ==
    /\ Free(p)
    /\ IF Falsy(id)
       THEN Refuse(p, [op |-> "getMembershipsByUser", id |-> id],
                   Reply(400, "User ID is required"))
       ELSE Enter(p, [op |-> "getMembershipsByUser", id |-> id], "mu_user")
    /\ loc' = [loc EXCEPT ![p] = NoLoc]
    /\ UNCHANGED <<usersT, chapters, membershipsT>>

MuUser(p) ==
    /\ pc[p] = "mu_user"
    /\ IF SelUsersByUserId(req[p].id) = {}
       THEN Answer(p, "select user", Reply(404, "User not found"))
       ELSE Goto(p, "select user", "mu_rows")
    /\ UNCHANGED <<usersT, chapters, membershipsT, loc>>

MuRows(p) ==
    /\ pc[p] = "mu_rows"
    /\ \E o \in Orderings(SelMembershipsJoinChapters(req[p].id), "Chapter_Name") :
          Answer(p, "select memberships", ReplyData(200, o))
    /\ UNCHANGED <<usersT, chapters, membershipsT, loc>>

StartCheckWarriorNameAvailability(p, warriorName) ==
    /\ Free(p)
    /\ IF Falsy(warriorName)
       THEN Refuse(p, [op |-> "checkWarriorNameAvailability", warriorName |-> warriorName],
                   Reply(400, "Missing required field: warriorName is required"))
       ELSE Enter(p, [op |-> "checkWarriorNameAvailability", warriorName |-> warriorName],
                  "wn_name")
    /\ loc' = [loc EXCEPT ![p] = NoLoc]
    /\ UNCHANGED <<usersT, chapters, membershipsT>>

WnName(p) ==
    /\ pc[p] = "wn_name"
    /\ Answer(p, "select name",
              ReplyData(200, [isAvailable |-> SelMembershipsByName(req[p].warriorName) = {},
                              warriorName |-> req[p].warriorName]))
    /\ UNCHANGED <<usersT, chapters, membershipsT, loc>>

(***************************************************************************)
(* The remaining read-only handlers: getChapterCount, checkChapterName,    *)
(* getChapterById and getUserIDByGoogleUserId                              *)
(***************************************************************************)
StartGetChapterCount(p) ==
    /\ Free(p)
    /\ Enter(p, [op |-> "getChapterCount"], "cn_count")
    /\ loc' = [loc EXCEPT ![p] = NoLoc]
    /\ UNCHANGED <<usersT, chapters, membershipsT>>

CnCount(p) ==
    /\ pc[p] = "cn_count"
    /\ Answer(p, "select count", ReplyData(200, [total |-> Cardinality(chapters)]))
    /\ UNCHANGED <<usersT, chapters, membershipsT, loc>>

StartCheckChapterName(p, name) ==
    /\ Free(p)
    /\ IF Falsy(name)
       THEN Refuse(p, [op |-> "checkChapterName", Chapter_Name |-> name],
                   Reply(400, "Chapter name is required"))
       ELSE Enter(p, [op |-> "checkChapterName", Chapter_Name |-> name], "ck_name")
    /\ loc' = [loc EXCEPT ![p] = NoLoc]
    /\ UNCHANGED <<usersT, chapters, membershipsT>>

CkName(p) ==
    /\ pc[p] = "ck_name"
    /\ IF SelChaptersByName(req[p].Chapter_Name) # {}
       THEN Answer(p, "select name", Reply(200, "Chapter name already exists"))
       ELSE Answer(p, "select name", Reply(200, "Chapter name is available"))
    /\ UNCHANGED <<usersT, chapters, membershipsT, loc>>

StartGetChapterById(p, id) ==
    /\ Free(p)
    /\ IF Falsy(id)
       THEN Refuse(p, [op |-> "getChapterById", id |-> id],
                   Reply(400, "Chapter ID is required"))
       ELSE Enter(p, [op |-> "getChapterById", id |-> id], "ci_chapter")
    /\ loc' = [loc EXCEPT ![p] = NoLoc]
    /\ UNCHANGED <<usersT, chapters, membershipsT>>

CiChapter(p) ==
    /\ pc[p] = "ci_chapter"
    /\ LET rows == SelChaptersById(req[p].id)
       IN IF rows = {}
          THEN Answer(p, "select chapter", Reply(404, "Chapter not found"))
          ELSE \E r \in rows : Answer(p, "select chapter", ReplyData(200, r))
    /\ UNCHANGED <<usersT, chapters, membershipsT, loc>>

StartGetUserIDByGoogleUserId(p, gid) ==
    /\ Free(p)
    /\ IF Falsy(gid)
       THEN Refuse(p, [op |-> "getUserIDByGoogleUserId", GoogleUserId |-> gid],
                   Reply(400, "GoogleUserId is required"))
       ELSE Enter(p, [op |-> "getUserIDByGoogleUserId", GoogleUserId |-> gid], "ug_user")
    /\ loc' = [loc EXCEPT ![p] = NoLoc]
    /\ UNCHANGED <<usersT, chapters, membershipsT>>

UgUser(p) ==
    /\ pc[p] = "ug_user"
    /\ LET rows == SelUsersByGoogleUserId(req[p].GoogleUserId)
       IN IF rows = {}
          THEN Answer(p, "select user", Reply(404, "User not found"))
          ELSE \E r \in rows :
                  Answer(p, "select user", ReplyData(200, [User_ID |-> r.User_ID]))
    /\ UNCHANGED <<usersT, chapters, membershipsT, loc>>

(***************************************************************************)
(* The catch blocks: a statement the store rejects throws out of the await, *)
(* and the handler answers 500 with its own message.                       *)
(***************************************************************************)
StoreFailsAnswered400(p) ==
    /\ ~Free(p)
    /\ Answer(p, "throws", Reply(400, CatchMessage(req[p].op)))
    /\ UNCHANGED <<usersT, chapters, membershipsT, loc>>

\* the statement p is waiting for is rejected and has no effect on the tables
StoreFails(p) ==
    /\ ~Free(p)
    /\ Answer(p, "throws", Reply(500, CatchMessage(req[p].op)))
    /\ UNCHANGED <<usersT, chapters, membershipsT, loc>>

(***************************************************************************)
(* Start-up: initializeDatabase and initializeTables, one step per awaited *)
(* statement, then the .then callback that sets app.locals.db.             *)
(***************************************************************************)
NoTable == [exists |-> FALSE, columns |-> {}, constraints |-> {}]

\* CREATE TABLE users (...)
UsersTable ==
    [exists      |-> TRUE,
     columns     |-> {"ID", "User_ID", "GoogleUserId", "Email", "Role", "Status",
                      "CreatedAt", "UpdatedAt"},
     constraints |-> {"NOT NULL(User_ID)", "UNIQUE(User_ID)"}]

\* CREATE TABLE chapters (...)
ChaptersTable ==
    [exists      |-> TRUE,
     columns     |-> {"ID", "Chapter_Id", "Chapter_Name", "Chapter_Description",
                      "Created_By", "Status", "CreatedAt", "UpdatedAt"},
     constraints |-> {"UNIQUE(Chapter_Id)"}]

\* CREATE TABLE memberships (...)
MembershipsTable ==
    [exists      |-> TRUE,
     columns     |-> {"ID", "User_ID", "Chapter_Id", "Chapter_Rank", "Chapter_Status",
                      "Warrior_Name", "CreatedAt", "UpdatedAt"},
     constraints |-> {"FOREIGN KEY(User_ID)", "FOREIGN KEY(Chapter_Id)",
                      "UNIQUE(User_ID, Chapter_Id)"}]

CreatedSchema ==
    [users |-> UsersTable, chapters |-> ChaptersTable, memberships |-> MembershipsTable]

Store == [schema |-> schema, tables |-> Tables]

requests == <<pc, req, loc, resp, stmts, before, conn>>

InitRunning == ipc \notin {"ready", "failed"}

\* statement s of the initializer returned; it goes on to its next await
InitGoto(s, next) ==
    /\ ipc' = next
    /\ ilog' = Append(ilog, s)
    /\ UNCHANGED <<appDb, ibefore, requests>>

\* statement s threw out of initializeTables: both catch blocks rethrow, and the
\* .catch of the start-up code logs the error; app.locals.db stays unset
InitThrows(s) ==
    /\ ipc' = "failed"
    /\ ilog' = Append(ilog, s)
    /\ UNCHANGED <<appDb, ibefore, requests>>

\* await db.execute('PRAGMA foreign_keys = ON;') in initializeDatabase
IdPragma ==
    /\ ipc = "pragma"
    /\ InitGoto("pragma", "it_pragma")
    /\ UNCHANGED <<usersT, chapters, membershipsT, schema, irows>>

\* await db.execute('PRAGMA foreign_keys = ON;') in initializeTables
ItPragma ==
    /\ ipc = "it_pragma"
    /\ InitGoto("pragma", "it_users")
    /\ UNCHANGED <<usersT, chapters, membershipsT, schema, irows>>

\* CREATE TABLE IF NOT EXISTS: an existing table is left as it is
CreateIfNotExists(t, definition) ==
    IF schema[t].exists THEN schema ELSE [schema EXCEPT ![t] = definition]

ItUsersRecreate ==
    /\ ipc = "it_users"
    /\ schema' = [schema EXCEPT !.users = UsersTable]
    /\ users' = {}
    /\ InitGoto("create users", "it_chapters")
    /\ UNCHANGED <<userSeq, uuidCount, chapters, membershipsT, irows>>

ItUsers ==
    /\ ipc = "it_users"
    /\ schema' = CreateIfNotExists("users", UsersTable)
    /\ InitGoto("create users", "it_chapters")
    /\ UNCHANGED <<usersT, chapters, membershipsT, irows>>

ItChapters ==
    /\ ipc = "it_chapters"
    /\ schema' = CreateIfNotExists("chapters", ChaptersTable)
    /\ InitGoto("create chapters", "it_memberships")
    /\ UNCHANGED <<usersT, chapters, membershipsT, irows>>

ItMemberships ==
    /\ ipc = "it_memberships"
    /\ schema' = CreateIfNotExists("memberships", MembershipsTable)
    /\ InitGoto("create memberships", "it_probe_user_id")
    /\ UNCHANGED <<usersT, chapters, membershipsT, irows>>

\* SELECT User_ID FROM users LIMIT 1: throws when the column is absent, and the
\* inner catch block starts the migration
ItProbeUserId ==
    /\ ipc = "it_probe_user_id"
    /\ IF "User_ID" \in schema.users.columns
       THEN InitGoto("probe User_ID", "it_probe_user_status")
       ELSE InitGoto("probe User_ID", "it_add_user_id")
    /\ UNCHANGED <<usersT, chapters, membershipsT, schema, irows>>

\* ALTER TABLE users ADD COLUMN User_ID TEXT: throws on a duplicate column
ItAddUserId ==
    /\ ipc = "it_add_user_id"
    /\ IF "User_ID" \in schema.users.columns
       THEN InitThrows("add User_ID") /\ UNCHANGED schema
       ELSE /\ schema' = [schema EXCEPT !.users.columns = @ \cup {"User_ID"}]
            /\ InitGoto("add User_ID", "it_select_null")
    /\ UNCHANGED <<usersT, chapters, membershipsT, irows>>

\* SELECT ID FROM users WHERE User_ID IS NULL (NULL is held as <<>>)
ItSelectNull ==
    /\ ipc = "it_select_null"
    /\ LET ids == {u.ID : u \in {r \in users : r.User_ID = <<>>}}
       IN \E o \in [1..Cardinality(ids) -> ids] :
             /\ \A i \in DOMAIN o : \A j \in DOMAIN o : o[i] = o[j] => i = j
             /\ irows' = o
             /\ InitGoto("select null", IF o = <<>> THEN "it_set_not_null" ELSE "it_update")
    /\ UNCHANGED <<usersT, chapters, membershipsT, schema>>

\* UPDATE users SET User_ID = ? WHERE ID = ?, with a fresh crypto.randomUUID()
ItUpdate ==
    /\ ipc = "it_update"
    /\ users' = {IF u.ID = Head(irows)
                 THEN [u EXCEPT !.User_ID = randomUUID(uuidCount + 1)] ELSE u : u \in users}
    /\ uuidCount' = uuidCount + 1
    /\ irows' = Tail(irows)
    /\ InitGoto("update", IF Tail(irows) = <<>> THEN "it_set_not_null" ELSE "it_update")
    /\ UNCHANGED <<userSeq, chapters, membershipsT, schema>>

\* ALTER TABLE users ALTER COLUMN User_ID SET NOT NULL: the store may not accept
\* this form of ALTER TABLE; both outcomes are allowed
ItSetNotNull ==
    /\ ipc = "it_set_not_null"
    /\ \/ /\ schema' = [schema EXCEPT !.users.constraints = @ \cup {"NOT NULL(User_ID)"}]
          /\ InitGoto("set not null", "it_index")
       \/ /\ InitThrows("set not null")
          /\ UNCHANGED schema
    /\ UNCHANGED <<usersT, chapters, membershipsT, irows>>

\* CREATE UNIQUE INDEX IF NOT EXISTS users_user_id_unique ON users(User_ID)
ItIndex ==
    /\ ipc = "it_index"
    /\ schema' = [schema EXCEPT !.users.constraints = @ \cup {"UNIQUE(User_ID)"}]
    /\ InitGoto("create index", "it_probe_user_status")
    /\ UNCHANGED <<usersT, chapters, membershipsT, irows>>

\* SELECT Status FROM users LIMIT 1
ItProbeUserStatus ==
    /\ ipc = "it_probe_user_status"
    /\ IF "Status" \in schema.users.columns
       THEN InitGoto("probe users Status", "it_probe_chapter_status")
       ELSE InitGoto("probe users Status", "it_add_user_status")
    /\ UNCHANGED <<usersT, chapters, membershipsT, schema, irows>>

\* ALTER TABLE users ADD COLUMN Status TEXT NOT NULL DEFAULT 'pending': the
\* rows there get the default (a row without the column holds "")
ItAddUserStatus ==
    /\ ipc = "it_add_user_status"
    /\ IF "Status" \in schema.users.columns
       THEN InitThrows("add users Status") /\ UNCHANGED <<schema, users>>
       ELSE /\ schema' = [schema EXCEPT !.users.columns = @ \cup {"Status"}]
            /\ users' = {[u EXCEPT !.Status = "pending"] : u \in users}
            /\ InitGoto("add users Status", "it_probe_chapter_status")
    /\ UNCHANGED <<userSeq, uuidCount, chapters, membershipsT, irows>>

\* SELECT Status FROM chapters LIMIT 1
ItProbeChapterStatus ==
    /\ ipc = "it_probe_chapter_status"
    /\ IF "Status" \in schema.chapters.columns
       THEN InitGoto("probe chapters Status", "then")
       ELSE InitGoto("probe chapters Status", "it_add_chapter_status")
    /\ UNCHANGED <<usersT, chapters, membershipsT, schema, irows>>

\* ALTER TABLE chapters ADD COLUMN Status TEXT NOT NULL DEFAULT 'pending'
ItAddChapterStatus ==
    /\ ipc = "it_add_chapter_status"
    /\ IF "Status" \in schema.chapters.columns
       THEN InitThrows("add chapters Status") /\ UNCHANGED <<schema, chapters>>
       ELSE /\ schema' = [schema EXCEPT !.chapters.columns = @ \cup {"Status"}]
            /\ chapters' = {[c EXCEPT !.Status = "pending"] : c \in chapters}
            /\ InitGoto("add chapters Status", "then")
    /\ UNCHANGED <<usersT, membershipsT, irows>>

\* .then((database) => { db = database; app.locals.db = db; })
IdThen ==
    /\ ipc = "then"
    /\ appDb' = TRUE
    /\ ipc' = "ready"
    /\ UNCHANGED <<usersT, chapters, membershipsT, schema, ilog, ibefore, irows, requests>>

ProbePcs == {"it_probe_user_id", "it_probe_user_status", "it_probe_chapter_status"}

\* where the inner catch block of a probe leads
AfterProbeThrew ==
    CASE ipc = "it_probe_user_id"        -> "it_add_user_id"
      [] ipc = "it_probe_user_status"    -> "it_add_user_status"
      [] ipc = "it_probe_chapter_status" -> "it_add_chapter_status"

\* the store rejects the statement the initializer waits for, with no effect:
\* a rejected probe enters its catch block (the migration), any other
\* statement throws out of the initializer
InitRejects ==
    /\ InitRunning /\ ipc # "then"
    /\ IF ipc \in ProbePcs
       THEN InitGoto("throws", AfterProbeThrew)
       ELSE InitThrows("throws")
    /\ UNCHANGED <<usersT, chapters, membershipsT, schema, irows>>

\* the server process is started again on the same store: requests in flight
\* are gone, app.locals.db is unset, and the start-up code runs from the top
Restart ==
    /\ ~InitRunning
    /\ ipc' = "pragma"
    /\ appDb' = FALSE
    /\ ilog' = <<>>
    /\ ibefore' = Store
    /\ irows' = <<>>
    /\ pc' = [p \in Procs |-> "idle"]
    /\ req' = [p \in Procs |-> NoReq]
    /\ loc' = [p \in Procs |-> NoLoc]
    /\ resp' = [p \in Procs |-> NoResp]
    /\ stmts' = [p \in Procs |-> <<>>]
    /\ before' = [p \in Procs |-> Tables]
    /\ conn' = [p \in Procs |-> FALSE]
    /\ UNCHANGED <<usersT, chapters, membershipsT, schema>>

StartupSteps ==
    \/ IdPragma
    \/ ItPragma
    \/ ItUsers
    \/ ItChapters
    \/ ItMemberships
    \/ ItProbeUserId
    \/ ItAddUserId
    \/ ItSelectNull
    \/ ItUpdate
    \/ ItSetNotNull
    \/ ItIndex
    \/ ItProbeUserStatus
    \/ ItAddUserStatus
    \/ ItProbeChapterStatus
    \/ ItAddChapterStatus
    \/ IdThen

(***************************************************************************)
(* The state after start-up on a new database, and the request values the  *)
(* checks draw from.                                                       *)
(***************************************************************************)
Init ==
    /\ users = {} /\ userSeq = 0 /\ uuidCount = 0
    /\ chapters = {}
    /\ memberships = {} /\ memSeq = 0
    /\ pc = [p \in Procs |-> "idle"]
    /\ req = [p \in Procs |-> NoReq]
    /\ loc = [p \in Procs |-> NoLoc]
    /\ resp = [p \in Procs |-> NoResp]
    /\ stmts = [p \in Procs |-> <<>>]
    /\ before = [p \in Procs |-> Tables]
    /\ conn = [p \in Procs |-> FALSE]
    /\ schema = CreatedSchema
    /\ appDb = TRUE
    /\ ipc = "ready"
    /\ ilog = <<>>
    /\ ibefore = Store
    /\ irows = <<>>

Email1 == <<"a","@","b",".","c">>
Email2 == <<"d","@","b",".","c">>
EmailBad == <<"a","b">>
\* texts that miss the shape local@domain.tld in one place each
EmailsMisshapen ==
    {<<"a","@","b">>, <<"@","b",".","c">>, <<"a","@","b",".">>, <<"a","@",".","c">>,
     <<"a"," ","@","b",".","c">>, <<"a","@","@","b",".","c">>}
Google1 == <<"g","1">>
Google2 == <<"g","2">>
\* a provider id that contains '@' (and reads like Email1)
GoogleAt == Email1
\* a provider id of UUID shape, in upper case
GoogleUuid ==
    Rep("A", 8) \o <<"-">> \o Rep("B", 4) \o <<"-">> \o Rep("C", 4)
      \o <<"-">> \o Rep("D", 4) \o <<"-">> \o Rep("E", 12)
RoleUser == <<"u","s","e","r">>

NameAl == <<"A","l">>
NameAlLower == <<"a","l">>
NameBo == <<"B","o">>
NameAb == <<"a","b">>
Descr == <<"d">>
Draw1 == <<0, 1, 2, 26, 27, 35>>
Draw2 == <<25, 25, 25, 25, 25, 25>>
Draw3 == <<35, 0, 35, 0, 35, 0>>
Chapter1 == generateChapterId(Draw1)
Chapter2 == generateChapterId(Draw2)

WarriorTw == <<"T","w">>
WarriorTwLower == <<"t","w">>
WarriorOx == <<"O","x">>
WarriorAx == <<"a","x">>
RankLead == <<"l","e","a","d">>

UserBody(g, e, r) == [GoogleUserId |-> g, Email |-> e, Role |-> r]

ChapterBody(n) ==
    [Chapter_Name |-> n, Chapter_Description |-> Descr, Created_By |-> randomUUID(1)]

MembershipBody(u, c, w, r) ==
    [User_ID |-> u, Chapter_Id |-> c, Warrior_Name |-> w, Chapter_Rank |-> r]

(***************************************************************************)
(* Next-state relations: the handlers of process p over given request sets *)
(***************************************************************************)
CreateUserSteps(p, bodies) ==
    \/ \E b \in bodies : StartCreateUser(p, b)
    \/ CuCheck(p)
    \/ CuInsert(p)
    \/ CuReadBack(p)

DeleteUserSteps(p, identifiers) ==
    \/ \E i \in identifiers : StartDeleteUser(p, i)
    \/ DuCheck(p)
    \/ DuDelete(p)

ChapterSteps(p, bodies, draws) ==
    \/ \E b \in bodies, d \in draws : StartCreateChapter(p, b, d)
    \/ CcName(p)
    \/ CcId(p)
    \/ CcLast(p)
    \/ CcInsert(p)

GetChaptersSteps(p, queries) ==
    \/ \E q \in queries : StartGetChapters(p, q)
    \/ GcCount(p)
    \/ GcPage(p)

MembershipReadSteps(p, chapterIds, userIds, names) ==
    \/ \E id \in chapterIds : StartGetMembershipsByChapter(p, id)
    \/ McChapter(p)
    \/ McRows(p)
    \/ \E id \in userIds : StartGetMembershipsByUser(p, id)
    \/ MuUser(p)
    \/ MuRows(p)
    \/ \E w \in names : StartCheckWarriorNameAvailability(p, w)
    \/ WnName(p)

LookupSteps(p, names, chapterIds, googleIds) ==
    \/ StartGetChapterCount(p)
    \/ CnCount(p)
    \/ \E n \in names : StartCheckChapterName(p, n)
    \/ CkName(p)
    \/ \E id \in chapterIds : StartGetChapterById(p, id)
    \/ CiChapter(p)
    \/ \E g \in googleIds : StartGetUserIDByGoogleUserId(p, g)
    \/ UgUser(p)

MembershipSteps(p, bodies) ==
    \/ \E b \in bodies : StartCreateMembership(p, b)
    \/ CmUser(p)
    \/ CmChapter(p)
    \/ CmPair(p)
    \/ CmName(p)
    \/ CmInsert(p)
    \/ CmReadBack(p)

\* One client, all four writing operations: requests run one after another.
SeqUserBodies ==
    {UserBody(g, e, RoleUser) : g \in {Google1, GoogleAt, GoogleUuid}, e \in {Email1, Email2}}
      \cup {UserBody(<<>>, Email1, RoleUser), UserBody(Google1, Email1, <<>>),
            UserBody(Google1, EmailBad, RoleUser),
            UserBody(Google1, <<>>, RoleUser), UserBody(<<>>, EmailBad, RoleUser),
            UserBody(Google1, EmailBad, <<>>),
            UserBody(Google1, <<"a","@","b",".","c",".","d">>, RoleUser)}
      \cup {UserBody(Google1, e, RoleUser) : e \in EmailsMisshapen}

SeqIdentifiers ==
    {Email1, Email2, Google1, GoogleUuid, randomUUID(1), randomUUID(2)}

SeqMembershipBodies ==
    {MembershipBody(u, Chapter1, WarriorTw, <<>>) : u \in {randomUUID(1), randomUUID(2)}}

Next ==
    \/ CreateUserSteps("p1", SeqUserBodies)
    \/ DeleteUserSteps("p1", SeqIdentifiers)
    \/ ChapterSteps("p1", {ChapterBody(NameAl)}, {Draw1})
    \/ MembershipSteps("p1", SeqMembershipBodies)

Spec == Init /\ [][Next]_vars

\* One client, memberships in depth: two users, two chapters, names that differ
\* in case only, and requests with a required field left out.
MemUserBodies ==
    {UserBody(Google1, Email1, RoleUser), UserBody(Google2, Email2, RoleUser)}

MemChapterBodies == {ChapterBody(NameAl), ChapterBody(NameBo)}

MemMembershipBodies ==
    {MembershipBody(u, c, w, <<>>) :
        u \in {randomUUID(1), randomUUID(2)}, c \in {Chapter1, Chapter2},
        w \in {WarriorTw, WarriorTwLower, WarriorOx}}
      \cup {MembershipBody(randomUUID(1), Chapter1, WarriorOx, RankLead),
            MembershipBody(randomUUID(2), Chapter2, WarriorTw, RankLead),
            MembershipBody(<<>>, Chapter1, WarriorTw, <<>>),
            MembershipBody(randomUUID(2), <<>>, WarriorTw, <<>>),
            MembershipBody(randomUUID(2), Chapter1, <<>>, RankLead)}

NextMemberships ==
    \/ CreateUserSteps("p1", MemUserBodies)
    \/ ChapterSteps("p1", MemChapterBodies, {Draw1, Draw2})
    \/ MembershipSteps("p1", MemMembershipBodies)

SpecMemberships == Init /\ [][NextMemberships]_vars

\* One client, chapters in depth.
SeqChapterBodies ==
    {ChapterBody(n) : n \in {NameAl, NameAlLower, NameBo, <<" ">> \o NameAl, <<" ">>}}

NextChapters == ChapterSteps("p1", SeqChapterBodies, {Draw1, Draw2})

SpecChapters == Init /\ [][NextChapters]_vars

\* Two clients whose createChapter requests interleave.
NextChaptersConcurrent ==
    \/ ChapterSteps("p1", {ChapterBody(NameAl), ChapterBody(NameBo)}, {Draw1, Draw2})
    \/ ChapterSteps("p2", {ChapterBody(NameAb)}, {Draw2, Draw3})

SpecChaptersConcurrent == Init /\ [][NextChaptersConcurrent]_vars

\* One client creates a user, a chapter and memberships while another deletes
\* users.
NextReferences ==
    \/ CreateUserSteps("p1", {UserBody(Google1, Email1, RoleUser)})
    \/ ChapterSteps("p1", {ChapterBody(NameAl)}, {Draw1})
    \/ MembershipSteps("p1", {MembershipBody(randomUUID(u), Chapter1, WarriorTw, <<>>) :
                                 u \in {1, 2}})
    \/ DeleteUserSteps("p2", {Email1, randomUUID(1)})

SpecReferences == Init /\ [][NextReferences]_vars

\* Two clients whose createUser and deleteUser requests interleave.
RaceUserBodies ==
    {UserBody(Google1, Email1, RoleUser), UserBody(Google2, Email1, RoleUser),
     UserBody(Google1, Email2, RoleUser)}

RaceIdentifiers == {Email1, Google1}

NextUsersConcurrent ==
    \E p \in Procs :
        \/ CreateUserSteps(p, RaceUserBodies)
        \/ DeleteUserSteps(p, RaceIdentifiers)

SpecUsersConcurrent == Init /\ [][NextUsersConcurrent]_vars

\* Two clients whose createMembership requests interleave, after one of them
\* has created the user and the two chapters.
RaceMembershipBodies ==
    {MembershipBody(randomUUID(1), c, w, <<>>) :
        c \in {Chapter1, Chapter2}, w \in {WarriorTw, WarriorTwLower}}

NextMembershipsConcurrent ==
    \/ CreateUserSteps("p1", {UserBody(Google1, Email1, RoleUser)})
    \/ ChapterSteps("p1", MemChapterBodies, {Draw1, Draw2})
    \/ \E p \in Procs : MembershipSteps(p, RaceMembershipBodies)

SpecMembershipsConcurrent == Init /\ [][NextMembershipsConcurrent]_vars

\* One client that creates up to three chapters and reads them page by page.
ListChapterBodies == {ChapterBody(n) : n \in {NameAl, NameBo, NameAb}}

ListQueries ==
    {[page |-> pg, limit |-> lm] :
        pg \in {<<>>, <<"0">>, <<"1">>, <<"2">>, <<"3">>, <<"-", "1">>, <<"2", "x">>},
        lm \in {<<>>, <<"0">>, <<"1">>, <<"2">>, <<"-", "1">>}}

NextChapterList ==
    \/ ChapterSteps("p1", ListChapterBodies, {Draw1, Draw2, Draw3})
    \/ GetChaptersSteps("p1", ListQueries)

SpecChapterList == Init /\ [][NextChapterList]_vars

\* One client that creates users, chapters and memberships and reads them back.
QueryMembershipBodies ==
    {MembershipBody(randomUUID(1), Chapter1, WarriorTw, <<>>),
     MembershipBody(randomUUID(1), Chapter2, WarriorAx, <<>>),
     MembershipBody(randomUUID(2), Chapter1, WarriorAx, <<>>),
     MembershipBody(randomUUID(2), Chapter1, WarriorOx, <<>>),
     MembershipBody(randomUUID(2), Chapter2, WarriorTwLower, <<>>)}

NextQueries ==
    \/ CreateUserSteps("p1", MemUserBodies)
    \/ ChapterSteps("p1", {ChapterBody(NameBo), ChapterBody(NameAb)}, {Draw1, Draw2})
    \/ MembershipSteps("p1", QueryMembershipBodies)
    \/ MembershipReadSteps("p1", {Chapter1, Chapter2}, {randomUUID(1), randomUUID(2)},
                           {WarriorTw, WarriorTwLower, WarriorAx, <<>>})

SpecQueries == Init /\ [][NextQueries]_vars

\* One client that creates chapters and memberships and asks whether names are
\* taken, among them names with a leading blank.
NextNames ==
    \/ CreateUserSteps("p1", {UserBody(Google1, Email1, RoleUser)})
    \/ ChapterSteps("p1", {ChapterBody(NameAl), ChapterBody(<<" ">> \o NameAl),
                           ChapterBody(NameBo)}, {Draw1, Draw2})
    \/ MembershipSteps("p1", {MembershipBody(randomUUID(1), c, w, <<>>) :
                                 c \in {Chapter1, Chapter2},
                                 w \in {WarriorTw, <<" ">> \o WarriorTw}})
    \/ MembershipReadSteps("p1", {Chapter1}, {randomUUID(1)},
                           {WarriorTw, WarriorTwLower, <<" ">> \o WarriorTw, WarriorAx})
    \/ LookupSteps("p1", {NameAl, NameAlLower, <<" ">> \o NameAl, NameBo},
                   {Chapter1}, {Google1})

SpecNames == Init /\ [][NextNames]_vars

\* One client and every route, with a store that may reject any statement.
NextFaults ==
    \/ CreateUserSteps("p1", MemUserBodies)
    \/ DeleteUserSteps("p1", {Email1})
    \/ ChapterSteps("p1", {ChapterBody(NameAl)}, {Draw1})
    \/ GetChaptersSteps("p1", {[page |-> <<>>, limit |-> <<>>]})
    \/ MembershipSteps("p1", {MembershipBody(randomUUID(u), Chapter1, WarriorTw, <<>>) :
                                 u \in {1, 2}})
    \/ MembershipReadSteps("p1", {Chapter1}, {randomUUID(1)}, {WarriorTwLower})
    \/ LookupSteps("p1", {NameAlLower}, {Chapter1}, {Google1})
    \/ StoreFails("p1")

SpecFaults == Init /\ [][NextFaults]_vars

\* A server started on a store that is new, or that an earlier version of the
\* schema left behind (a users table without User_ID and Status holding one row,
\* a chapters table without Status); it may be started again at any time after
\* its start-up has ended, and the store may reject a start-up statement.
LegacySchema ==
    [users       |-> [UsersTable EXCEPT !.columns = @ \ {"User_ID", "Status"},
                                        !.constraints = {}],
     chapters    |-> [ChaptersTable EXCEPT !.columns = @ \ {"Status"}],
     memberships |-> NoTable]

LegacyUser ==
    [ID |-> 1, User_ID |-> <<>>, GoogleUserId |-> Google2, Email |-> Email2,
     Role |-> RoleUser, Status |-> ""]

InitStartup ==
    /\ \/ schema = [users |-> NoTable, chapters |-> NoTable, memberships |-> NoTable]
          /\ users = {} /\ userSeq = 0
       \/ schema = LegacySchema
          /\ users = {LegacyUser} /\ userSeq = 1
    /\ uuidCount = 0
    /\ chapters = {}
    /\ memberships = {} /\ memSeq = 0
    /\ pc = [p \in Procs |-> "idle"]
    /\ req = [p \in Procs |-> NoReq]
    /\ loc = [p \in Procs |-> NoLoc]
    /\ resp = [p \in Procs |-> NoResp]
    /\ stmts = [p \in Procs |-> <<>>]
    /\ before = [p \in Procs |-> Tables]
    /\ conn = [p \in Procs |-> FALSE]
    /\ appDb = FALSE
    /\ ipc = "pragma"
    /\ ilog = <<>>
    /\ ibefore = Store
    /\ irows = <<>>

NextStartup ==
    \/ StartupSteps
    \/ InitRejects
    \/ Restart
    \/ CreateUserSteps("p1", {UserBody(Google1, Email1, RoleUser),
                              UserBody(Google1, EmailBad, RoleUser)})
    \/ ChapterSteps("p1", {ChapterBody(NameAl)}, {Draw1})
    \/ LookupSteps("p1", {NameAlLower}, {Chapter1}, {Google1})

SpecStartup == InitStartup /\ [][NextStartup]_vars

(***************************************************************************)
(* Properties.  They are stated on the tables and on what a finished       *)
(* request shows (its body, its answer, the statements it executed), with  *)
(* their own comparison of names.                                          *)
(***************************************************************************)
Done(p, op) == pc[p] = "done" /\ req[p].op = op

\* two texts are equal up to the case of their ASCII letters
SameLetter(a, b) ==
    \/ a = b
    \/ \E i \in DOMAIN UpperCase :
          {a, b} = {UpperCase[i], LowerCase[i]}

EqualIgnoringCase(s, t) ==
    Len(s) = Len(t) /\ \A i \in DOMAIN s : SameLetter(s[i], t[i])

RequiredPresent(b) == b.User_ID # <<>> /\ b.Chapter_Id # <<>> /\ b.Warrior_Name # <<>>

UserRows(b) == {u \in users : u.User_ID = b.User_ID}

ChapterRows(b) == {c \in chapters : c.Chapter_Id = b.Chapter_Id}

PairRows(b) ==
    {m \in memberships : m.User_ID = b.User_ID /\ m.Chapter_Id = b.Chapter_Id}

NameRows(b) ==
    {m \in memberships : EqualIgnoringCase(m.Warrior_Name, b.Warrior_Name)}

MissingFields ==
    Reply(400, "Missing required fields: User_ID, Chapter_Id, and Warrior_Name are required")

UserNotFound == Reply(404, "User not found")

ChapterNotFound == Reply(404, "Chapter not found")

AlreadyMember == Reply(400, "User is already a member of this chapter")

NameTaken == Reply(400, "Warrior name is already taken")

CmChecks == <<"select user", "select chapter", "select pair", "select name">>

C2_AlwaysUserNotFound ==
    \A p \in Procs :
        (/\ Done(p, "createMembership")
         /\ req[p].body.User_ID # <<>>
         /\ UserRows(req[p].body) = {}) =>
            resp[p] = UserNotFound

\* C2, amended: when User_ID matches no user row and User_ID, Chapter_Id and
\* Warrior_Name are all non-empty, the answer is 404 "User not found", whatever
\* Chapter_Id and Warrior_Name refer to and whether or not Chapter_Rank is given;
\* when one of the three is empty the answer is 400 "Missing required fields"
\* and no statement is executed.
C2_UserNotFound ==
    \A p \in Procs :
        (Done(p, "createMembership") /\ UserRows(req[p].body) = {}) =>
            IF RequiredPresent(req[p].body)
            THEN resp[p] = UserNotFound /\ stmts[p] = <<"select user">>
            ELSE resp[p] = MissingFields /\ stmts[p] = <<>>

\* no such user, no such chapter, a rank given: 404 "User not found"
C2_Witness ==
    \E p \in Procs :
        /\ Done(p, "createMembership")
        /\ resp[p] = UserNotFound
        /\ ChapterRows(req[p].body) = {}
        /\ req[p].body.Chapter_Rank # <<>>

\* C3: no two membership rows have the same (User_ID, Chapter_Id) pair, also
\* when createMembership requests interleave.
C3_PairUnique ==
    \A m1 \in memberships : \A m2 \in memberships :
        (m1.User_ID = m2.User_ID /\ m1.Chapter_Id = m2.Chapter_Id) => m1 = m2

\* two requests for one pair both passed the pair check; the second INSERT threw
C3_Witness ==
    \E p \in Procs : \E q \in Procs \ {p} :
        /\ Done(p, "createMembership") /\ Done(q, "createMembership")
        /\ req[p].body.User_ID = req[q].body.User_ID
        /\ req[p].body.Chapter_Id = req[q].body.Chapter_Id
        /\ resp[p].status = 201
        /\ resp[q].status = 500
        /\ stmts[q] = CmChecks \o <<"insert membership">>

\* C4: a createMembership request for a pair that already has a row is answered
\* 400 "User is already a member of this chapter" whatever its Warrior_Name, and
\* executes no INSERT.
C4_AlreadyMember ==
    \A p \in Procs :
        (/\ Done(p, "createMembership")
         /\ RequiredPresent(req[p].body)
         /\ resp[p].status # 201
         /\ PairRows(req[p].body) # {}) =>
            /\ resp[p] = AlreadyMember
            /\ stmts[p] = SubSeq(CmChecks, 1, 3)

\* the repeated request carries a name no row has
C4_Witness ==
    \E p \in Procs :
        /\ Done(p, "createMembership")
        /\ resp[p] = AlreadyMember
        /\ NameRows(req[p].body) = {}

\* C5: with requests run one at a time, no two membership rows have names equal
\* ignoring case, in whatever chapters; a request (for an existing user and
\* chapter) whose name equals an existing one ignoring case is answered 400 and
\* executes no INSERT.
C5_NameUnique ==
    /\ \A m1 \in memberships : \A m2 \in memberships :
          EqualIgnoringCase(m1.Warrior_Name, m2.Warrior_Name) => m1 = m2
    /\ \A p \in Procs :
          (/\ Done(p, "createMembership")
           /\ RequiredPresent(req[p].body)
           /\ UserRows(req[p].body) # {} /\ ChapterRows(req[p].body) # {}
           /\ \E m \in NameRows(req[p].body) : resp[p].data # <<m>>) =>
              /\ resp[p].status = 400
              /\ \A i \in DOMAIN stmts[p] : stmts[p][i] # "insert membership"

\* a name differing in case only from one used in another chapter is refused
C5_Witness ==
    \E p \in Procs :
        /\ Done(p, "createMembership")
        /\ resp[p] = NameTaken
        /\ \E m \in NameRows(req[p].body) :
              /\ m.Warrior_Name # req[p].body.Warrior_Name
              /\ m.Chapter_Id # req[p].body.Chapter_Id

\* C6: when two createMembership requests for different pairs carry names equal
\* ignoring case and both have passed the name check (so both reached their
\* INSERT), both INSERTs succeed: both are answered 201 and the table holds two
\* rows whose names are equal ignoring case.
C6_NameRace ==
    \A p \in Procs : \A q \in Procs \ {p} :
        (/\ Done(p, "createMembership") /\ Done(q, "createMembership")
         /\ <<req[p].body.User_ID, req[p].body.Chapter_Id>>
               # <<req[q].body.User_ID, req[q].body.Chapter_Id>>
         /\ EqualIgnoringCase(req[p].body.Warrior_Name, req[q].body.Warrior_Name)
         /\ Len(stmts[p]) > 4 /\ Len(stmts[q]) > 4) =>
            /\ resp[p].status = 201 /\ resp[q].status = 201
            /\ resp[p].data # resp[q].data
            /\ {resp[p].data[1], resp[q].data[1]} \subseteq memberships

\* both answered 201, and the two rows differ in chapter and in the case of the name
C6_Witness ==
    \E p \in Procs : \E q \in Procs \ {p} :
        /\ Done(p, "createMembership") /\ Done(q, "createMembership")
        /\ resp[p].status = 201 /\ resp[q].status = 201
        /\ \E m1 \in memberships : \E m2 \in memberships :
              /\ m1 = resp[p].data[1] /\ m2 = resp[q].data[1]
              /\ m1.Chapter_Id # m2.Chapter_Id
              /\ m1.Warrior_Name # m2.Warrior_Name
              /\ EqualIgnoringCase(m1.Warrior_Name, m2.Warrior_Name)

\* C7: no two user rows have the same Email, and no two the same GoogleUserId,
\* in every state that interleaved createUser and deleteUser requests reach.
C7_UsersUnique ==
    \A u1 \in users : \A u2 \in users :
        (u1.Email = u2.Email \/ u1.GoogleUserId = u2.GoogleUserId) => u1 = u2

WellFormedUser(b) ==
    b.GoogleUserId # <<>> /\ b.Email # <<>> /\ b.Role # <<>> /\ emailRegex(b.Email)

\* the user rows that carry the Email or the GoogleUserId of body b
MatchingUsers(b) ==
    {u \in users : u.Email = b.Email} \cup {u \in users : u.GoogleUserId = b.GoogleUserId}

UserExists == Reply(400, "User with this email or GoogleUserId already exists")

\* C8: a well-formed createUser request is answered 400 "User with this email or
\* GoogleUserId already exists" when a row carries its Email or its GoogleUserId,
\* and then executes no INSERT; otherwise it is answered 201 with the one row it
\* inserted: the body's fields, Status "pending" and a User_ID no other row has.
C8_CreateUser ==
    \A p \in Procs :
        (Done(p, "createUser") /\ WellFormedUser(req[p].body)) =>
            LET b == req[p].body
            IN IF resp[p].status = 201
               THEN LET row == resp[p].data[1]
                    IN /\ MatchingUsers(b) = {row}
                       /\ row.Email = b.Email /\ row.GoogleUserId = b.GoogleUserId
                       /\ row.Role = b.Role
                       /\ row.Status = "pending"
                       /\ \A u \in users : u.User_ID = row.User_ID => u = row
                       /\ stmts[p] = <<"select user", "insert user", "select user">>
               ELSE /\ resp[p] = UserExists
                    /\ MatchingUsers(b) # {}
                    /\ stmts[p] = <<"select user">>

\* refused because of the GoogleUserId alone: no row carries the Email
C8_Witness ==
    \E p \in Procs :
        /\ Done(p, "createUser")
        /\ resp[p] = UserExists
        /\ \A u \in users : u.Email # req[p].body.Email

ChapterNameRows(b) ==
    {c \in chapters : EqualIgnoringCase(c.Chapter_Name, b.Chapter_Name)}

ChapterNameExists == Reply(400, "Chapter name already exists (case-insensitive)")

\* C9: with requests run one at a time, no two chapter rows have names equal
\* ignoring case; a createChapter request whose name equals an existing chapter's
\* ignoring case is answered 400 "Chapter name already exists (case-insensitive)"
\* after the name query alone, so it executes no INSERT.
C9_ChapterNameUnique ==
    /\ \A c1 \in chapters : \A c2 \in chapters :
          EqualIgnoringCase(c1.Chapter_Name, c2.Chapter_Name) => c1 = c2
    /\ \A p \in Procs :
          (Done(p, "createChapter") /\ req[p].body.Chapter_Name # <<>>) =>
              IF resp[p].status = 201
              THEN ChapterNameRows(req[p].body) = {resp[p].data[1]}
              ELSE ChapterNameRows(req[p].body) # {} =>
                      /\ resp[p] = ChapterNameExists
                      /\ stmts[p] = <<"select name">>

\* refused for a name that differs from the existing one in case only
C9_Witness ==
    \E p \in Procs :
        /\ Done(p, "createChapter")
        /\ resp[p] = ChapterNameExists
        /\ \A c \in chapters : c.Chapter_Name # req[p].body.Chapter_Name

UserDeleted == Reply(200, "User deleted successfully")

DeleteFailed == Reply(500, "Internal server error while deleting user")

\* the user rows that carry the identifier as Email, GoogleUserId or User_ID
NamedUsers(id) ==
    {u \in users : u.Email = id \/ u.GoogleUserId = id \/ u.User_ID = id}

\* the user rows the identifier selects by its shape: an Email, a User_ID, or a
\* GoogleUserId that neither contains '@' nor has the shape of a UUID
SelectedUsers(id) ==
    {u \in users :
        \/ u.Email = id
        \/ u.User_ID = id
        \/ u.GoogleUserId = id /\ ~Includes(id, "@") /\ ~uuidRegex(id)}

Referenced(u) == \E m \in memberships : m.User_ID = u.User_ID

\* C10 as stated: deleteUser with the Email, the GoogleUserId or the User_ID of
\* an existing row is answered 200 and the row is gone; with an identifier no row
\* carries it is answered 404.  Either way no row carries the identifier after
\* the request, and the answer is 200 or 404.
C10_DeleteAnyForm ==
    \A p \in Procs :
        Done(p, "deleteUser") =>
            /\ resp[p] \in {UserDeleted, UserNotFound}
            /\ NamedUsers(req[p].identifier) = {}

\* C10, amended, on a finished request: a row it selects by shape that is still
\* there is one a membership references, and the answer is then 500; the answer
\* 404 comes after the lookup alone, 200 after the lookup and the DELETE.
C10_DeleteState ==
    \A p \in Procs :
        Done(p, "deleteUser") =>
            /\ \A u \in SelectedUsers(req[p].identifier) :
                  Referenced(u) /\ resp[p] = DeleteFailed
            /\ resp[p] \in {UserDeleted, UserNotFound, DeleteFailed}
            /\ resp[p] = UserNotFound => stmts[p] = <<"select user">>
            /\ resp[p] # UserNotFound => stmts[p] = <<"select user", "delete user">>

\* C10, amended, on the steps of a request: the lookup answers 404 exactly when
\* the identifier selects no row, and leaves the table alone; the DELETE answers
\* 200 exactly when it removes the selected rows, all of them unreferenced.
C10_DeleteStep ==
    \A p \in Procs :
        LET sel == SelectedUsers(req[p].identifier)
        IN /\ (pc[p] = "du_check" /\ pc'[p] # "du_check") =>
                 /\ users' = users
                 /\ sel = {} <=> resp'[p] = UserNotFound
           /\ (pc[p] = "du_delete" /\ pc'[p] # "du_delete") =>
                 IF \E u \in sel : Referenced(u)
                 THEN users' = users /\ resp'[p] = DeleteFailed
                 ELSE users' = users \ sel /\ resp'[p] = UserDeleted

\* C10, amended: with requests run one at a time, deleteUser with the Email or
\* the User_ID of an existing row, or with its GoogleUserId when that neither
\* contains '@' nor has UUID shape, is answered 200 "User deleted successfully"
\* and the row is gone, provided no membership references the row (else 500 and
\* nothing is deleted); with an identifier that selects no row this way it is
\* answered 404 "User not found" and the users table is unchanged.
C10_DeleteByShape == []C10_DeleteState /\ [][C10_DeleteStep]_vars

\* a row deleted through its GoogleUserId
C10_Witness ==
    \E p \in Procs :
        /\ Done(p, "deleteUser")
        /\ resp[p] = UserDeleted
        /\ ~Includes(req[p].identifier, "@")
        /\ ~uuidRegex(req[p].identifier)

\* the page and the limit a getChapters request asks for: the number its text
\* starts with, or the default when there is none (or it is 0)
AskedPage(q) ==
    LET v == parseInt(q.page) IN IF v.nan \/ v.val = 0 THEN 1 ELSE v.val

AskedLimit(q) ==
    LET v == parseInt(q.limit) IN IF v.nan \/ v.val = 0 THEN 50 ELSE v.val

\* the position (from 0) of chapter c among the chapters sorted by name
Position(c) ==
    Cardinality({d \in chapters : TextLess(d.Chapter_Name, c.Chapter_Name)})

\* C11: with requests run one at a time, getChapters with page p >= 1 and limit
\* l >= 1 (1 and 50 when absent) answers 200 with total = the number of chapter
\* rows, totalPages = ceil(total / l), and as chapters the rows at positions
\* (p-1)*l .. (p-1)*l + l - 1 of the chapters sorted by name, in that order; the
\* list is empty when (p-1)*l >= total, and total is the full count all the same.
C11_Pagination ==
    \A p \in Procs :
        (/\ Done(p, "getChapters")
         /\ AskedPage(req[p].query) >= 1 /\ AskedLimit(req[p].query) >= 1) =>
            LET pg    == AskedPage(req[p].query)
                lm    == AskedLimit(req[p].query)
                body  == resp[p].data[1]
                total == Cardinality(chapters)
                first == (pg - 1) * lm
                shown == {c \in chapters : Position(c) \in first..(first + lm - 1)}
            IN /\ resp[p].status = 200
               /\ body.pagination.total = total
               /\ body.pagination.page = pg /\ body.pagination.limit = lm
               /\ body.pagination.totalPages * lm >= total
               /\ (body.pagination.totalPages - 1) * lm < total
               /\ Len(body.chapters) = Cardinality(shown)
               /\ \A c \in shown :
                     body.chapters[Position(c) - first + 1] =
                        [Chapter_Id |-> c.Chapter_Id, Chapter_Name |-> c.Chapter_Name]
               /\ first >= total => body.chapters = <<>>

\* page 2 of three chapters, two to a page: two pages, and the one row shown is
\* the chapter whose name sorts last
C11_Witness ==
    \E p \in Procs :
        /\ Done(p, "getChapters")
        /\ req[p].query = [page |-> <<"2">>, limit |-> <<"2">>]
        /\ Cardinality(chapters) = 3
        /\ resp[p].data[1].pagination.totalPages = 2
        /\ Len(resp[p].data[1].chapters) = 1
        /\ resp[p].data[1].chapters[1].Chapter_Name = NameAb

\* C12: a createChapter request answered 201 returns the row it stored, whose
\* Chapter_Id is exactly 6 characters long, each one a lowercase letter a-z or a
\* digit 0-9; so is the Chapter_Id of every chapter row.
C12_ChapterIdFormat ==
    LET WellFormed(id) ==
            /\ Len(id) = 6
            /\ \A i \in DOMAIN id :
                  id[i] \in Range(LowerCase) \cup Range(DecimalDigits)
    IN /\ \A c \in chapters : WellFormed(c.Chapter_Id)
       /\ \A p \in Procs :
             (Done(p, "createChapter") /\ resp[p].status = 201) =>
                 /\ WellFormed(resp[p].data[1].Chapter_Id)
                 /\ resp[p].data[1] \in chapters

\* a chapter created with the first and the last character of the alphabet drawn
C12_Witness ==
    \E p \in Procs :
        /\ Done(p, "createChapter")
        /\ resp[p].status = 201
        /\ resp[p].data[1].Chapter_Id = <<"a", "b", "c", "1", "2", "0">>
        /\ resp[p].data[1] \in chapters

\* the request of p ended in its catch block: the k-th statement it issued threw
Threw(p, k) == Len(stmts[p]) = k /\ stmts[p][k] = "throws"

\* the number of statements a create operation issues up to its INSERT: the
\* existence and uniqueness checks (and createChapter's last-ID query), then
\* the INSERT itself
UpToInsert(op) ==
    CASE op = "createUser"       -> 2
      [] op = "createChapter"    -> 4
      [] op = "createMembership" -> 5

\* C13: when a check statement or the INSERT of createUser, createChapter or
\* createMembership is rejected by the store, the request is answered 500 and
\* the three tables hold exactly the rows they held when the request arrived.
C13_FailureLeavesStore ==
    \A p \in Procs :
        (/\ pc[p] = "done"
         /\ req[p].op \in {"createUser", "createChapter", "createMembership"}
         /\ \E k \in 1..UpToInsert(req[p].op) : Threw(p, k)) =>
            /\ resp[p].status = 500
            /\ Tables = before[p]

\* the INSERT of a createMembership request that passed its four checks threw
C13_Witness ==
    \E p \in Procs :
        /\ Done(p, "createMembership")
        /\ stmts[p] = CmChecks \o <<"throws">>
        /\ resp[p].status = 500
        /\ memberships = {}

\* C14: with requests run one at a time, a createMembership request that passed
\* its four checks is answered 201 with the one row it added to the memberships
\* table: the request's User_ID, Chapter_Id and Warrior_Name, Chapter_Status
\* 'pending', and Chapter_Rank as requested, or 'member' when none was given.
C14_CreatedRow ==
    \A p \in Procs :
        (/\ Done(p, "createMembership")
         /\ Len(stmts[p]) > 4 /\ SubSeq(stmts[p], 1, 4) = CmChecks) =>
            /\ resp[p].status = 201
            /\ Len(resp[p].data) = 1
            /\ LET row == resp[p].data[1]
                   b   == req[p].body
               IN /\ row \notin before[p].memberships
                  /\ memberships = before[p].memberships \cup {row}
                  /\ row.User_ID = b.User_ID
                  /\ row.Chapter_Id = b.Chapter_Id
                  /\ row.Warrior_Name = b.Warrior_Name
                  /\ row.Chapter_Status = "pending"
                  /\ row.Chapter_Rank =
                        IF b.Chapter_Rank = <<>> THEN <<"m", "e", "m", "b", "e", "r">>
                        ELSE b.Chapter_Rank

\* a row created with the rank asked for, next to one created with the default
C14_Witness ==
    \E p \in Procs :
        /\ Done(p, "createMembership")
        /\ resp[p].status = 201
        /\ req[p].body.Chapter_Rank = RankLead
        /\ resp[p].data[1].Chapter_Rank = RankLead
        /\ \E m \in memberships : m.Chapter_Rank = <<"m", "e", "m", "b", "e", "r">>

\* C15: checkWarriorNameAvailability with a non-empty warriorName answers 200,
\* echoes the name, and reports isAvailable = true exactly when no membership row,
\* in whatever chapter, has a Warrior_Name equal to it ignoring case; with no
\* warriorName it answers 400 without querying the store.
C15_Availability ==
    \A p \in Procs :
        Done(p, "checkWarriorNameAvailability") =>
            IF req[p].warriorName = <<>>
            THEN resp[p].status = 400 /\ stmts[p] = <<>>
            ELSE /\ resp[p].status = 200
                 /\ resp[p].data[1].warriorName = req[p].warriorName
                 /\ resp[p].data[1].isAvailable =
                       (\A m \in memberships :
                           ~EqualIgnoringCase(m.Warrior_Name, req[p].warriorName))

\* a name reported taken because of a row that differs from it in case only
C15_Witness ==
    \E p \in Procs :
        /\ Done(p, "checkWarriorNameAvailability")
        /\ resp[p].status = 200
        /\ resp[p].data[1].isAvailable = FALSE
        /\ \A m \in memberships : m.Warrior_Name # req[p].warriorName

\* C16: when a membership row of a chapter carries a Warrior_Name, a
\* createMembership request of another existing user for that chapter with the
\* same Warrior_Name is answered 400 with the message 'Warrior name is already
\* taken in this chapter'.
C16_TakenInThisChapter ==
    \A p \in Procs :
        (/\ Done(p, "createMembership")
         /\ RequiredPresent(req[p].body)
         /\ UserRows(req[p].body) # {} /\ ChapterRows(req[p].body) # {}
         /\ \E m \in memberships :
               /\ m.Chapter_Id = req[p].body.Chapter_Id
               /\ m.Warrior_Name = req[p].body.Warrior_Name
               /\ m.User_ID # req[p].body.User_ID) =>
            resp[p] = Reply(400, "Warrior name is already taken in this chapter")

\* every row of the three tables has the status it was created with
C17_AllPending ==
    /\ \A u \in users : u.Status = "pending"
    /\ \A c \in chapters : c.Status = "pending"
    /\ \A m \in memberships : m.Chapter_Status = "pending"

\* a step keeps every row as it is, or removes it: no row of the next state has
\* the numeric ID of a row of this state and differs from it in some field
C17_RowsKept ==
    /\ \A u \in users : \A v \in users' : v.ID = u.ID => v = u
    /\ \A c \in chapters : \A d \in chapters' : d.ID = c.ID => d = c
    /\ \A m \in memberships : \A n \in memberships' : n.ID = m.ID => n = m

\* C17: no operation modifies an existing row: a user, chapter or membership row
\* keeps its status 'pending', its User_ID or Chapter_Id and every other field
\* from its creation on, in every later state, until it is deleted.
C17_RowsImmutable == []C17_AllPending /\ [][C17_RowsKept]_vars

\* a user, a chapter and a membership row exist, and a deleteUser request ran
C17_Witness ==
    \E p \in Procs :
        /\ Done(p, "deleteUser")
        /\ Len(stmts[p]) = 2
        /\ users # {} /\ chapters # {} /\ memberships # {}

\* the step of a deleteUser request that executes its DELETE
DeleteStep == \E p \in Procs : req[p].op = "deleteUser" /\ pc[p] = "du_delete"

\* a step removes no chapter row and no membership row; a step that removes a
\* user row is the DELETE of a deleteUser request
C18_RowsStay ==
    /\ chapters \subseteq chapters'
    /\ memberships \subseteq memberships'
    /\ ~(users \subseteq users') => DeleteStep

\* C18: chapter and membership rows are never removed: once such a row exists it
\* exists in every later state; the only operation that removes rows is
\* deleteUser, and it removes rows of the users table only.
C18_NoDeletion == [][C18_RowsStay]_vars

\* a user was deleted while a chapter and another user's membership exist
C18_Witness ==
    \E p \in Procs :
        /\ Done(p, "deleteUser")
        /\ resp[p] = UserDeleted
        /\ users # {} /\ chapters # {} /\ memberships # {}

\* a text with no white space and no '@' in it
Plain(s) == \A i \in DOMAIN s : s[i] \notin WhiteSpace \cup {"@"}

\* the shape local@domain.tld: three non-empty plain parts
LocalAtDomainTld(s) ==
    \E a \in DOMAIN s : \E d \in DOMAIN s :
        /\ 1 < a /\ a + 1 < d /\ d < Len(s)
        /\ s[a] = "@" /\ s[d] = "."
        /\ Plain(SubSeq(s, 1, a - 1))
        /\ Plain(SubSeq(s, a + 1, d - 1))
        /\ Plain(SubSeq(s, d + 1, Len(s)))

MissingUserFields ==
    Reply(400, "Missing required fields: GoogleUserId, Email, and Role are required")

\* C19: createUser answers 400 'Missing required fields...' when GoogleUserId,
\* Email or Role is missing or empty, and otherwise 400 'Invalid email format'
\* when Email does not have the shape local@domain.tld, in both cases before any
\* statement is issued and with the tables untouched; the missing-field check
\* comes first, so a request with both faults gets the first message.  A request
\* with neither fault goes on to the store.
C19_CreateUserValidation ==
    \A p \in Procs :
        Done(p, "createUser") =>
            LET b == req[p].body
                missing == b.GoogleUserId = <<>> \/ b.Email = <<>> \/ b.Role = <<>>
            IN /\ missing =>
                     resp[p] = MissingUserFields /\ stmts[p] = <<>> /\ Tables = before[p]
               /\ (~missing /\ ~LocalAtDomainTld(b.Email)) =>
                     /\ resp[p] = Reply(400, "Invalid email format")
                     /\ stmts[p] = <<>> /\ Tables = before[p]
               /\ (~missing /\ LocalAtDomainTld(b.Email)) => stmts[p] # <<>>

\* a request with no GoogleUserId and a misshapen Email is told of the missing field
C19_Witness ==
    \E p \in Procs :
        /\ Done(p, "createUser")
        /\ req[p].body.GoogleUserId = <<>>
        /\ ~LocalAtDomainTld(req[p].body.Email) /\ req[p].body.Email # <<>>
        /\ resp[p] = MissingUserFields

\* the rows of list o are exactly the rows of set S, each once
ListsExactly(o, S) ==
    /\ Len(o) = Cardinality(S)
    /\ {o[i] : i \in DOMAIN o} = S

\* membership row m with the name and the description of its chapter
WithChapter(m) ==
    LET c == CHOOSE c \in chapters : c.Chapter_Id = m.Chapter_Id
    IN [ID |-> m.ID, User_ID |-> m.User_ID, Chapter_Id |-> m.Chapter_Id,
        Chapter_Rank |-> m.Chapter_Rank, Chapter_Status |-> m.Chapter_Status,
        Warrior_Name |-> m.Warrior_Name, Chapter_Name |-> c.Chapter_Name,
        Chapter_Description |-> c.Chapter_Description]

Initialized(sc) ==
    /\ sc.users.exists /\ sc.chapters.exists /\ sc.memberships.exists
    /\ {"ID", "User_ID", "GoogleUserId", "Email", "Role", "Status"} \subseteq sc.users.columns
    /\ {"ID", "Chapter_Id", "Chapter_Name", "Chapter_Description", "Created_By", "Status"}
          \subseteq sc.chapters.columns
    /\ {"ID", "User_ID", "Chapter_Id", "Chapter_Rank", "Chapter_Status", "Warrior_Name"}
          \subseteq sc.memberships.columns

Rejected == \E i \in DOMAIN ilog : ilog[i] = "throws"

\* a run of the initializer on an initialized store, none of whose statements
\* the store rejected, has not failed, and until it is through the schema and
\* the rows are what they were when it started
C21_RunKeepsStore ==
    (Initialized(ibefore.schema) /\ ~Rejected) =>
        /\ ipc # "failed"
        /\ ipc # "ready" => Store = ibefore

\* the last step of start-up sets the handle and leaves the store alone
C21_LastStep ==
    (ipc # "ready" /\ ipc' = "ready") =>
        /\ schema' = schema
        /\ users' = users /\ chapters' = chapters /\ memberships' = memberships

\* C21: running the schema initializer again on a store it has already
\* initialized succeeds and leaves the schema (tables, columns, constraints) and
\* all rows unchanged.
C21_Idempotent == []C21_RunKeepsStore /\ [][C21_LastStep]_vars

\* a second start-up, on a store with its tables and a user and a chapter row,
\* has gone through all its statements
C21_Witness ==
    /\ ipc = "then"
    /\ Initialized(ibefore.schema)
    /\ ibefore.tables.users # {} /\ ibefore.tables.chapters # {}
    /\ Len(ilog) = 8
    /\ Store = ibefore

\* the handler of request r gets as far as a store access: the request passes
\* the checks made on its fields before the first statement
ReachesStore(r) ==
    CASE r.op = "createUser"              -> WellFormedUser(r.body)
      [] r.op = "createChapter"           ->
            /\ r.body.Chapter_Name # <<>> /\ r.body.Chapter_Description # <<>>
            /\ r.body.Created_By # <<>>
      [] r.op = "checkChapterName"        -> r.Chapter_Name # <<>>
      [] r.op = "getChapterById"          -> r.id # <<>>
      [] r.op = "getUserIDByGoogleUserId" -> r.GoogleUserId # <<>>
      [] OTHER                            -> TRUE

IdCollision == Reply(400, "Generated chapter ID already exists, please try again")

\* the chapter rows, at the arrival of p's request, with the requested name
\* (ignoring case) and with the generated Chapter_Id
NameRowsBefore(p) ==
    {c \in before[p].chapters :
        EqualIgnoringCase(c.Chapter_Name, req[p].body.Chapter_Name)}

IdRowsBefore(p) == {c \in before[p].chapters : c.Chapter_Id = loc[p].Chapter_Id}

\* C24: createChapter checks the name before the generated id. A taken name is
\* answered with the name conflict after the name query alone, also when the
\* generated id collides as well; a free name with a colliding id is answered
\* 400 "Generated chapter ID already exists, please try again" after the two
\* queries: no other id is tried and no row is inserted.
C24_NameBeforeId ==
    \A p \in Procs :
        (Done(p, "createChapter") /\ req[p].body.Chapter_Name # <<>>) =>
            /\ NameRowsBefore(p) # {} =>
                  /\ resp[p] = ChapterNameExists
                  /\ stmts[p] = <<"select name">>
                  /\ chapters = before[p].chapters
            /\ (NameRowsBefore(p) = {} /\ IdRowsBefore(p) # {}) =>
                  /\ resp[p] = IdCollision
                  /\ stmts[p] = <<"select name", "select id">>
                  /\ chapters = before[p].chapters
            /\ resp[p] = IdCollision => NameRowsBefore(p) = {} /\ IdRowsBefore(p) # {}

\* a request with a free name whose generated id is that of an existing chapter
C24_Witness ==
    /\ Done("p1", "createChapter")
    /\ resp["p1"] = IdCollision
    /\ chapters # {}
    /\ \A c \in chapters : ~EqualIgnoringCase(c.Chapter_Name, req["p1"].body.Chapter_Name)

ChapterFailed == Reply(500, "Failed to create chapter")

\* no two chapter rows have the same ID, and of two answered requests that read
\* the same largest ID at most one has inserted its row
C25_DistinctIds ==
    /\ \A c1 \in chapters : \A c2 \in chapters : c1.ID = c2.ID => c1 = c2
    /\ \A p \in Procs : \A q \in Procs \ {p} :
          (/\ Done(p, "createChapter") /\ Done(q, "createChapter")
           /\ Len(stmts[p]) = 4 /\ Len(stmts[q]) = 4
           /\ loc[p].nextId = loc[q].nextId) =>
              ~(resp[p].status = 201 /\ resp[q].status = 201)

\* an INSERT that succeeds adds one row whose ID is 1 on an empty table and the
\* largest ID + 1 otherwise; an INSERT that fails is answered 500 and adds no row
C25_InsertStep ==
    \A p \in Procs :
        (pc[p] = "cc_insert" /\ pc'[p] = "done") =>
            \/ /\ resp'[p].status = 201
               /\ \E row \in chapters' \ chapters :
                     /\ chapters' = chapters \cup {row}
                     /\ resp'[p].data = <<row>>
                     /\ row.ID = IF chapters = {} THEN 1
                                ELSE Max({c.ID : c \in chapters}) + 1
                     /\ \A c \in chapters : c.ID < row.ID
            \/ /\ resp'[p] = ChapterFailed
               /\ chapters' = chapters

\* C25: the numeric ID of a new chapter is the largest existing ID + 1 (1 when
\* there is none), so IDs are pairwise distinct and grow in the order of
\* creation; of two concurrent createChapter requests with different names that
\* read the same largest ID at most one INSERT succeeds, and the other request
\* is answered 500 and inserts no row.
C25_ChapterIds == []C25_DistinctIds /\ [][C25_InsertStep]_vars

\* two requests with different names and different generated ids read the same
\* largest ID of a table that is not empty; one created its chapter, the other
\* was answered 500
C25_Witness ==
    /\ Done("p1", "createChapter") /\ Done("p2", "createChapter")
    /\ req["p1"].body.Chapter_Name # req["p2"].body.Chapter_Name
    /\ loc["p1"].Chapter_Id # loc["p2"].Chapter_Id
    /\ loc["p1"].nextId = 2 /\ loc["p2"].nextId = 2
    /\ resp["p1"].status = 201
    /\ resp["p2"] = ChapterFailed
    /\ Cardinality(chapters) = 2

\* C26: under any interleaving of createMembership and deleteUser, the User_ID
\* of every membership row is that of an existing user row and its Chapter_Id
\* that of an existing chapter row.
C26_References ==
    \A m \in memberships :
        /\ \E u \in users : u.User_ID = m.User_ID
        /\ \E c \in chapters : c.Chapter_Id = m.Chapter_Id

\* the user was deleted between the checks and the INSERT of a createMembership
\* request, whose INSERT was then rejected
C26_Witness ==
    /\ Done("p1", "createMembership")
    /\ stmts["p1"] = CmChecks \o <<"insert membership">>
    /\ resp["p1"].status = 500
    /\ Done("p2", "deleteUser")
    /\ resp["p2"] = UserDeleted
    /\ before["p1"].users # {} /\ users = {}

\* the one field deleteUser compares the identifier with: the first rule that
\* matches decides
FieldOf(id) ==
    IF \E i \in DOMAIN id : id[i] = "@" THEN "Email"
    ELSE IF uuidRegex(id) THEN "User_ID"
    ELSE "GoogleUserId"

ByField(id) == {u \in users : u[FieldOf(id)] = id}

\* the condition of both statements of a deleteUser request names that field
C23_OneField ==
    \A p \in Procs :
        (req[p].op = "deleteUser" /\ pc[p] # "idle") =>
            loc[p].query = CASE FieldOf(req[p].identifier) = "Email"   -> "Email = ?"
                             [] FieldOf(req[p].identifier) = "User_ID" -> "User_ID = ?"
                             [] OTHER                                  -> "GoogleUserId = ?"

\* the lookup finds a row exactly when a row carries the identifier in that
\* field, and the DELETE removes rows that carry it in that field and no other
C23_SameField ==
    \A p \in Procs :
        LET id == req[p].identifier
        IN /\ (pc[p] = "du_check" /\ pc'[p] # "du_check") =>
                 /\ ByField(id) = {} <=> resp'[p] = UserNotFound
                 /\ ByField(id) # {} <=> pc'[p] = "du_delete"
           /\ (pc[p] = "du_delete" /\ pc'[p] # "du_delete") =>
                 /\ users' \in {users, users \ ByField(id)}
                 /\ resp'[p] = UserDeleted <=> users' = users \ ByField(id)

\* C23: deleteUser classifies the identifier by the first rule that matches:
\* Email if it contains '@', else User_ID if it has the shape of a UUID in
\* either case of the hex letters, else GoogleUserId; that one field is used
\* both to look the row up and to delete it.
C23_Classification == []C23_OneField /\ [][C23_SameField]_vars

\* an identifier of UUID shape in upper case, the GoogleUserId of a row, has been
\* looked up as User_ID and not found, after another row was deleted
C23_Witness ==
    /\ Done("p1", "deleteUser")
    /\ req["p1"].identifier = GoogleUuid
    /\ resp["p1"] = UserNotFound
    /\ \E u \in users : u.GoogleUserId = GoogleUuid
    /\ uuidCount = 2 /\ Cardinality(users) = 1

\* C27: a createUser or createMembership request answered 500 leaves no new row
\* behind, whichever of its statements failed: a check, the INSERT or the
\* read-back.
C27_NoRowAfter500 ==
    \A p \in Procs :
        (/\ pc[p] = "done"
         /\ req[p].op \in {"createUser", "createMembership"}
         /\ resp[p].status = 500) =>
            /\ users = before[p].users
            /\ memberships = before[p].memberships

WritingOps == {"createUser", "createChapter", "createMembership", "deleteUser"}

\* what an answered request of p has done to the tables since it arrived: one
\* row more in the table of its create operation, or the users rows its
\* identifier selects removed
OwnChange(p) ==
    LET b == before[p]
    IN CASE req[p].op = "createUser" ->
              /\ \E row \in users \ b.users : users = b.users \cup {row}
              /\ chapters = b.chapters /\ memberships = b.memberships
         [] req[p].op = "createChapter" ->
              /\ \E row \in chapters \ b.chapters : chapters = b.chapters \cup {row}
              /\ users = b.users /\ memberships = b.memberships
         [] req[p].op = "createMembership" ->
              /\ \E row \in memberships \ b.memberships :
                    memberships = b.memberships \cup {row}
              /\ users = b.users /\ chapters = b.chapters
         [] req[p].op = "deleteUser" ->
              /\ users = {u \in b.users : u[FieldOf(req[p].identifier)] # req[p].identifier}
              /\ users # b.users
              /\ chapters = b.chapters /\ memberships = b.memberships
         [] OTHER -> FALSE

\* C28: with requests run one at a time, a read-only operation and every
\* request answered 400 or 404 leave the three tables unchanged; the tables
\* change only by a successful createUser, createChapter, createMembership or
\* deleteUser, each in its own table only: one row inserted, or the matching
\* rows removed.
C28_Frame ==
    \A p \in Procs :
        pc[p] = "done" =>
            /\ (req[p].op \notin WritingOps \/ resp[p].status \in {400, 404}) =>
                  Tables = before[p]
            /\ Tables # before[p] => resp[p].status \in {200, 201} /\ OwnChange(p)
            /\ (req[p].op \in WritingOps /\ resp[p].status \in {200, 201}) => OwnChange(p)

\* createChapter sent with this name in the current state is rejected with the
\* name conflict: the name passes chapterValidationRules and the name query
\* finds a row
CreateChapterRejectsName(name) ==
    LET body == Sanitize(ChapterBody(name))
    IN /\ ~Falsy(body.Chapter_Name)
       /\ SelChaptersByName(body.Chapter_Name) # {}

\* createMembership sent with this name for an existing user and an existing
\* chapter that are not yet paired is rejected with the warrior-name conflict
CreateMembershipRejectsName(name) ==
    /\ ~Falsy(name)
    /\ SelMembershipsByName(name) # {}

\* C29: checkChapterName reports exists = true exactly when createChapter with
\* that name in the same state would be rejected with the name conflict, and
\* checkWarriorNameAvailability reports isAvailable = false exactly when
\* createMembership with that name, for an existing user and chapter not yet
\* paired, would be rejected with the warrior-name conflict.
C29_ChecksAgree ==
    \A p \in Procs :
        /\ (Done(p, "checkChapterName") /\ resp[p].status = 200) =>
              (resp[p].message = "Chapter name already exists"
                  <=> CreateChapterRejectsName(req[p].Chapter_Name))
        /\ (Done(p, "checkWarriorNameAvailability") /\ resp[p].status = 200) =>
              (resp[p].data[1].isAvailable = FALSE
                  <=> CreateMembershipRejectsName(req[p].warriorName))

\* Two clients, createUser, deleteUser and createChapter, any statement may be rejected;
\* a statement that has been issued eventually returns or is rejected.
FairUserBodies == {UserBody(Google1, Email1, RoleUser), UserBody(<<>>, Email1, RoleUser)}

Arrives(p) ==
    \/ \E b \in FairUserBodies : StartCreateUser(p, b)
    \/ StartDeleteUser(p, Email1)
    \/ StartCreateChapter(p, ChapterBody(NameAl), Draw1)

Returns(p) ==
    \/ CuCheck(p) \/ CuInsert(p) \/ CuReadBack(p)
    \/ DuCheck(p) \/ DuDelete(p)
    \/ CcName(p) \/ CcId(p) \/ CcLast(p) \/ CcInsert(p)

NextFair ==
    \E p \in Procs :
        \/ Arrives(p)
        \/ Returns(p)
        \/ StoreFails(p)

SpecFair ==
    /\ Init
    /\ [][NextFair]_vars
    /\ \A p \in Procs : WF_vars(Returns(p) \/ StoreFails(p))

\* a request in flight has no response yet and its next statement can return
\* whatever the other request is doing; an answered request has one response
C22_State ==
    \A p \in Procs :
        /\ pc[p] = "done" => resp[p] # NoResp
        /\ ~Free(p) => resp[p] = NoResp /\ ENABLED Returns(p)

\* a statement is issued only by a request that has not been answered, a
\* response is replaced only when a new request comes in, and no step moves
\* two requests
C22_Step ==
    \A p \in Procs :
        /\ Len(stmts'[p]) > Len(stmts[p]) => ~Free(p) /\ resp[p] = NoResp
        /\ (resp[p] # NoResp /\ resp'[p] # resp[p]) =>
               /\ Free(p)
               /\ req'[p] # req[p] \/ resp'[p] = NoResp
        /\ pc'[p] # pc[p] => \A q \in Procs \ {p} : pc'[q] = pc[q] /\ resp'[q] = resp[q]

C30_Handle ==
    /\ appDb <=> ipc = "ready"
    /\ \A p \in Procs :
          /\ (pc[p] # "idle" /\ conn[p]) => ipc = "ready"
          /\ (pc[p] # "idle" /\ ~conn[p]) => pc[p] = "done" /\ stmts[p] = <<>>

\* a step of a request: with no handle it ends the request at once, with 500
\* when the handler gets as far as a store access, and changes no table; once
\* start-up has succeeded a request that comes in gets the handle
C30_RequestStep ==
    \A p \in Procs :
        (ipc' = ipc /\ <<pc[p], req[p], resp[p], stmts[p]>>
                          # <<pc'[p], req'[p], resp'[p], stmts'[p]>>) =>
            IF ipc = "ready"
            THEN conn'[p]
            ELSE /\ ~conn'[p]
                 /\ pc'[p] = "done"
                 /\ ReachesStore(req'[p]) => resp'[p].status = 500
                 /\ users' = users /\ chapters' = chapters /\ memberships' = memberships
                 /\ schema' = schema

\* C30: requests are accepted while start-up is still running, or after it has
\* failed; a request handled while app.locals.db is unset that reaches a store
\* access is answered 500 by the catch block of its handler, ends (the process
\* goes on serving) and changes no table; every request handled after start-up
\* has succeeded uses the initialized handle.
C30_Startup == []C30_Handle /\ [][C30_RequestStep]_vars

\* a createUser request answered 500 after start-up has failed
C30_Witness ==
    \E p \in Procs :
        /\ Done(p, "createUser")
        /\ WellFormedUser(req[p].body)
        /\ ~conn[p]
        /\ resp[p] = Reply(500, "Error creating user")
        /\ ipc = "failed"

====
